---- MODULE Spec2Model ----
(***************************************************************************)
(* Model of the fon audio library: the streaming resampler (Stream), the   *)
(* buffer sink (AudioSink) and the format adapter (SinkTo).                *)
(*                                                                         *)
(* The stream has N = 2 channels and is fed Audio<Samp24, 2>.  The sink is *)
(* an AudioSink over an Audio<Samp16, COUNT> buffer, either used directly  *)
(* (COUNT = 2) or wrapped in SinkTo (COUNT = 3).                           *)
(*                                                                         *)
(* An f32 is carried as a record [n, win, ph]: a sample decoded from PCM   *)
(* is the numerator n of n / 16777215 (win empty); an output of the        *)
(* resampling filter is the window of input values it was computed from    *)
(* (win) and the sub-sample phase (ph) it was computed at.  Two filter     *)
(* outputs are equal exactly when window and phase agree.                  *)
(***************************************************************************)
EXTENDS Integers, Sequences, FiniteSets, TLC

\* ------------------------------------------------------------------ bounds
MaxHz == 4
MaxAudio == 2
MaxSinkLen == 4
MaxCalls == 3
\* sample values lie within MaxSpan of the corner values of an encoding
MaxSpan == 1
\* float samples are the multiples of 1/4 up to MaxQuarter / 4
MaxQuarter == 5
\* channels of a destination frame
MaxN == 3
\* elements of a raw buffer and channels of its frames
MaxBuffer == 6
MaxCount == 3
\* pan angles are the multiples of 1/16 of a turn up to MaxSixteenth / 16
MaxSixteenth == 16

\* --------------------------------------------------------------- constants
NChan == 2
NSlots == 8
\* u32::MAX, cut to the largest integer the checker represents
U32Max == 2147483647
BaseFiltLen == 2
\* the channels of the largest frame
Channels == 8
\* i32::MAX
I32Max == 2147483647

Hz == 1..MaxHz

Min(a, b) == IF a < b THEN a ELSE b

Max(a, b) == IF a < b THEN b ELSE a

\* ceil(a / b) for a >= 0, b > 0
CeilDiv(a, b) == (a + b - 1) \div b

\* --------------------------------------------------------------------- f32
\* An f32 is the integer sign * bits(|x|), bits the IEEE-754 pattern of the
\* magnitude: 0 is 0.0, the order of the codes is the order of the values.
\* A finite nonzero f32 is sign * m * 2^e with 2^23 <= m < 2^24.
P2 ==
    <<1, 2, 4, 8, 16, 32, 64, 128, 256, 512, 1024, 2048, 4096, 8192, 16384,
      32768, 65536, 131072, 262144, 524288, 1048576, 2097152, 4194304,
      8388608, 16777216, 33554432, 67108864, 134217728, 268435456,
      536870912, 1073741824>>

Pow2(k) == P2[k + 1]

Abs(a) == IF a < 0 THEN -a ELSE a

Sign(a) == IF a < 0 THEN -1 ELSE 1

Clamp(v, min, max) == IF v < min THEN min ELSE IF v > max THEN max ELSE v

\* the number of bits of m, 0 < m < 2^31
BitLen(m) == CHOOSE n \in 1..31 : Pow2(n - 1) <= m /\ (n = 31 \/ m < Pow2(n))

F32Inf == 2139095040

F32NaN == 2143289344

F32One == 1065353216

F32Half == 1056964608

F32IsNaN(x) == Abs(x) > F32Inf

F32IsInf(x) == Abs(x) = F32Inf

F32Mant(x) == Pow2(23) + (Abs(x) % Pow2(23))

F32Exp(x) == (Abs(x) \div Pow2(23)) - 150

\* sign * m * 2^e for a normalised m; overflow gives infinity, underflow 0
F32Pack(s, m, e) ==
    IF e + 150 >= 255 THEN s * F32Inf
    ELSE IF e + 150 <= 0 THEN 0
    ELSE s * ((e + 150) * Pow2(23) + (m - Pow2(23)))

\* sign * q * 2^e for a rounded q: a carry out of the 24 bits renormalises
F32PackCarry(s, q, e) ==
    IF q = Pow2(24) THEN F32Pack(s, Pow2(23), e + 1) ELSE F32Pack(s, q, e)

\* q and the remainder rem cut below it: to nearest, ties to even
F32RoundUp(q, rem, half, sticky) ==
    IF rem > half \/ (rem = half /\ (sticky \/ q % 2 = 1)) THEN q + 1 ELSE q

\* m of 24 + k bits rounded to 24 bits
F32Cut(s, m, e, sticky, k) ==
    F32PackCarry(s, F32RoundUp(m \div Pow2(k), m % Pow2(k), Pow2(k - 1),
                               sticky),
                 e + k)

\* m of n bits brought to 24 bits
F32Norm(s, m, e, sticky, n) ==
    IF n <= 24 THEN F32Pack(s, m * Pow2(24 - n), e - (24 - n))
    ELSE F32Cut(s, m, e, sticky, n - 24)

\* The f32 nearest to sign * (m + t) * 2^e, ties to even, where 0 <= t < 1
\* and t > 0 exactly when sticky (then m >= 2^25)
F32Round(s, m, e, sticky) ==
    IF m = 0 THEN 0 ELSE F32Norm(s, m, e, sticky, BitLen(m))

\* i16 / i32 as f32
F32FromInt(i) == F32Round(Sign(i), Abs(i), 0, FALSE)

\* The 48-bit product l * r of two naturals below 2^24 as <<the bits above
\* the low 24, the low 24 bits>>, in 12-bit limbs
WideJoin(hi, losum) == <<hi + (losum \div Pow2(24)), losum % Pow2(24)>>

WideSum(top, mid, low) ==
    WideJoin(top + (mid \div 4096), ((mid % 4096) * 4096) + low)

WideLimbs(a1, a0, b1, b0) == WideSum(a1 * b1, a1 * b0 + a0 * b1, a0 * b0)

WideMul(l, r) == WideLimbs(l \div 4096, l % 4096, r \div 4096, r % 4096)

\* the product p of the mantissas, of 47 or 48 bits, rounded
F32MulRound(s, p, e) ==
    F32Round(s, p[1] * 64 + (p[2] \div Pow2(18)), e + 18,
             p[2] % Pow2(18) /= 0)

\* a * b: the 48-bit product of the mantissas, rounded once
F32Mul(a, b) ==
    IF F32IsNaN(a) \/ F32IsNaN(b) THEN F32NaN
    ELSE IF F32IsInf(a) \/ F32IsInf(b)
    THEN (IF a = 0 \/ b = 0 THEN F32NaN ELSE Sign(a) * Sign(b) * F32Inf)
    ELSE IF a = 0 \/ b = 0 THEN 0
    ELSE F32MulRound(Sign(a) * Sign(b), WideMul(F32Mant(a), F32Mant(b)),
                     F32Exp(a) + F32Exp(b))

\* x + y for |x| >= |y|: y aligned below 5 guard bits of x
F32AddRound(x, same, big, small, sticky) ==
    F32Round(Sign(x),
             IF same THEN big + small
             ELSE IF sticky THEN big - small - 1
             ELSE big - small,
             F32Exp(x) - 5, sticky)

F32AddAlign(x, y, d, all) ==
    F32AddRound(x, Sign(x) = Sign(y), F32Mant(x) * 32,
                IF d > 29 THEN 0 ELSE all \div Pow2(d),
                IF d > 29 THEN TRUE ELSE all % Pow2(d) /= 0)

F32AddOrdered(x, y) ==
    F32AddAlign(x, y, F32Exp(x) - F32Exp(y), F32Mant(y) * 32)

\* a + b
F32Add(a, b) ==
    IF F32IsNaN(a) \/ F32IsNaN(b) THEN F32NaN
    ELSE IF F32IsInf(a) \/ F32IsInf(b)
    THEN (IF F32IsInf(a) /\ F32IsInf(b) /\ a /= b THEN F32NaN
          ELSE IF F32IsInf(a) THEN a ELSE b)
    ELSE IF a = 0 THEN b
    ELSE IF b = 0 THEN a
    ELSE F32AddOrdered(IF Abs(a) >= Abs(b) THEN a ELSE b,
                       IF Abs(a) >= Abs(b) THEN b ELSE a)

F32Neg(a) == -a

F32Sub(a, b) == F32Add(a, F32Neg(b))

\* the bits of the quotient ma / mb below the leading one, by long division,
\* up to seven bits at a step
F32DivChunk(k) == IF k > 7 THEN 7 ELSE k

RECURSIVE F32DivBits(_, _, _, _)
F32DivBits(rem, mb, k, q) ==
    IF k = 0 THEN <<q, rem>>
    ELSE F32DivBits((rem * Pow2(F32DivChunk(k))) % mb, mb,
                    k - F32DivChunk(k),
                    q * Pow2(F32DivChunk(k))
                        + ((rem * Pow2(F32DivChunk(k))) \div mb))

F32DivRound(s, r, e) == F32Round(s, r[1], e - 26, r[2] /= 0)

F32DivMant(s, ma, mb, e) ==
    F32DivRound(s, F32DivBits(ma % mb, mb, 26, ma \div mb), e)

\* a / b for finite nonzero a and b
F32Div(a, b) ==
    F32DivMant(Sign(a) * Sign(b), F32Mant(a), F32Mant(b),
               F32Exp(a) - F32Exp(b))

\* f32::clamp(x, lo, hi): a NaN stays a NaN
F32Clamp(x, lo, hi) ==
    IF F32IsNaN(x) THEN x ELSE IF x < lo THEN lo ELSE IF x > hi THEN hi ELSE x

\* f32::floor
F32Floor(x) ==
    IF F32IsNaN(x) \/ F32IsInf(x) \/ x = 0 \/ F32Exp(x) >= 0 THEN x
    ELSE IF F32Exp(x) <= -24 THEN (IF x > 0 THEN 0 ELSE -F32One)
    ELSE F32FromInt((Sign(x) * F32Mant(x)) \div Pow2(-F32Exp(x)))

\* `x as i16` / `x as i32` for an integral x: saturating, NaN gives 0
F32AsInt(x, min, max) ==
    IF F32IsNaN(x) \/ x = 0 THEN 0
    ELSE IF F32IsInf(x) \/ F32Exp(x) >= 7 THEN (IF x > 0 THEN max ELSE min)
    ELSE Clamp(IF F32Exp(x) >= 0
               THEN Sign(x) * F32Mant(x) * Pow2(F32Exp(x))
               ELSE (Sign(x) * F32Mant(x)) \div Pow2(-F32Exp(x)),
               min, max)

\* --------------------------------------------------------------------- f64
\* An f64 is the pair <<m, e>> for m * 2^e, m odd or <<0, 0>>; the values
\* that occur have mantissas far below 53 bits, so their f64 sums and
\* products are exact.
RECURSIVE F64(_, _)
F64(m, e) ==
    IF m = 0 THEN <<0, 0>>
    ELSE IF m % 2 = 0 THEN F64(m \div 2, e + 1)
    ELSE <<m, e>>

\* `x as f64` for a finite f32 x
F64FromF32(x) == IF x = 0 THEN <<0, 0>> ELSE F64(Sign(x) * F32Mant(x), F32Exp(x))

\* `x as f32`
F64AsF32(x) == F32Round(Sign(x[1]), Abs(x[1]), x[2], FALSE)

F64Add(a, b) ==
    LET e == IF a[2] < b[2] THEN a[2] ELSE b[2]
    IN  F64(a[1] * Pow2(a[2] - e) + b[1] * Pow2(b[2] - e), e)

F64Neg(a) == <<-a[1], a[2]>>

F64Sub(a, b) == F64Add(a, F64Neg(b))

F64Mul(a, b) == F64(a[1] * b[1], a[2] + b[2])

\* ---------------------------------------------------------------- integers
\* `i as i16`, `i as u8`, `i >> k` and `/` of the machine integers
AsI16(i) == ((i + 32768) % 65536) - 32768

AsU8(i) == i % 256

AsU16(i) == i % 65536

Shr(i, k) == i \div Pow2(k)

TruncDiv(a, b) == Sign(a) * Sign(b) * (Abs(a) \div Abs(b))

\* a ^ b and a | b on k bits
RECURSIVE BitXor(_, _, _)
BitXor(a, b, k) ==
    IF k = 0 THEN 0
    ELSE 2 * BitXor(a \div 2, b \div 2, k - 1) + ((a + b) % 2)

RECURSIVE BitOr(_, _, _)
BitOr(a, b, k) ==
    IF k = 0 THEN 0
    ELSE 2 * BitOr(a \div 2, b \div 2, k - 1)
         + (IF a % 2 = 1 \/ b % 2 = 1 THEN 1 ELSE 0)

\* ----------------------------------------------------------------- samples
\* A PCM sample in encoding enc.  Samp16(i16) is the field v; Samp24(i16,
\* u8) is the fields v and lo; Samp32(f32) is the f32 v; Samp64(f64) is the
\* f64 v.  A sample quantised from a filter output keeps the output's
\* window and phase instead of a value.
Samp(v, enc) == [v |-> v, lo |-> 0, win |-> <<>>, ph |-> 0, enc |-> enc]

Encodings == {"s16", "s24", "s32", "s64"}

Samp16_new(value) == Samp(value, "s16")

Samp16_default == Samp16_new(0)

Samp16_MAX == Samp16_new(32767)

Samp16_MID == Samp16_new(0)

Samp16_MIN == Samp16_new(-32768)

i16_from_Samp16(ch) == ch.v

F32(n) == [n |-> n, win |-> <<>>, ph |-> 0]

\* 1.0 / 32_767.5
Samp16_MULTIPLIER == F32Div(F32One, 1191182080)

\* Samp16::to_f32: (f32::from(self.0) + 0.5) * MULTIPLIER
Samp16_to_f32(s) ==
    F32(F32Mul(F32Add(F32FromInt(s.v), F32Half), Samp16_MULTIPLIER))

\* the scale 32_767.0 in place of 32_767.5
Samp16_from_f32_unbiased(x) ==
    IF x.win = <<>>
    THEN Samp16_new(F32AsInt(F32Floor(F32Mul(F32Clamp(x.n, -F32One, F32One),
                                             F32FromInt(32767))),
                             -32768, 32767))
    ELSE [v |-> 0, lo |-> 0, win |-> x.win, ph |-> x.ph, enc |-> "s16"]

\* From<f32> for Samp16: (value.clamp(-1.0, 1.0) * 32_767.5).floor() as i16
Samp16_from_f32(x) ==
    IF x.win = <<>>
    THEN Samp16_new(F32AsInt(F32Floor(F32Mul(F32Clamp(x.n, -F32One, F32One),
                                             1191182080)),
                             -32768, 32767))
    ELSE [v |-> 0, lo |-> 0, win |-> x.win, ph |-> x.ph, enc |-> "s16"]

\* the 24-bit value rounded to the nearest 16-bit one
Samp16_from_Samp24_rounded(s) ==
    IF s.win = <<>>
    THEN Samp16_new(Clamp(s.v + (IF s.lo >= 128 THEN 1 ELSE 0), -32768, 32767))
    ELSE [s EXCEPT !.enc = "s24>s16"]

\* From<Samp24> for Samp16: Self::new(ch.0)
Samp16_from_Samp24(s) ==
    IF s.win = <<>> THEN Samp16_new(s.v)
    ELSE [s EXCEPT !.enc = "s24>s16"]

\* Samp16 + Samp16, Samp16 - Samp16: i16::saturating_add / saturating_sub
Samp16_add(a, b) ==
    Samp16_new(Clamp(i16_from_Samp16(a) + i16_from_Samp16(b), -32768, 32767))

Samp16_sub(a, b) ==
    Samp16_new(Clamp(i16_from_Samp16(a) - i16_from_Samp16(b), -32768, 32767))

\* the product without the division by MAX
Samp16_mul_unscaled(a, b) ==
    Samp16_new(AsI16(Clamp(a.v * b.v, -32768, 32767)))

Samp16_mul(a, b) ==
    Samp16_new(AsI16(Clamp(TruncDiv(a.v * b.v, 32767), -32768, 32767)))

\* arithmetic negation, saturated
Samp16_neg_arith(s) == Samp16_new(Clamp(-s.v, -32768, 32767))

\* -Samp16: (u16::MAX - i16::from(self) as u16) as i16
Samp16_neg(s) == Samp16_new(AsI16(65535 - AsU16(i16_from_Samp16(s))))

\* Samp24::new without the saturation
Samp24_new_wrapping(value) ==
    [v |-> AsI16(Shr(value, 8)), lo |-> AsU8(value), win |-> <<>>, ph |-> 0,
     enc |-> "s24"]

\* Samp24::new: saturate, then Self((value >> 8) as i16, value as u8)
Samp24_new(value) ==
    LET c == Clamp(value, -8388608, 8388607)
    IN  [v |-> AsI16(Shr(c, 8)), lo |-> AsU8(c), win |-> <<>>, ph |-> 0,
         enc |-> "s24"]

Samp24_MAX == Samp24_new(8388607)

Samp24_MID == Samp24_new(0)

Samp24_MIN == Samp24_new(-8388608)

\* From<Samp24> for i32: ((ch.0 as i32) << 8) | ch.1 as i32
i32_from_Samp24(ch) ==
    LET hi == ch.v * 256
    IN  (hi - (hi % 256)) + BitOr(hi % 256, ch.lo, 8)

\* 1.0 / 8_388_607.5
Samp24_MULTIPLIER == F32Div(F32One, 1258291199)

\* Samp24::to_f32: (i32::from(self) as f32 + 0.5) * MULTIPLIER
Samp24_to_f32(s) ==
    F32(F32Mul(F32Add(F32FromInt(i32_from_Samp24(s)), F32Half),
               Samp24_MULTIPLIER))

\* From<f32> for Samp24:
\* Self::new((value.clamp(-1.0, 1.0) * 8_388_607.5).floor() as i32)
Samp24_from_f32(x) ==
    IF x.win = <<>>
    THEN Samp24_new(F32AsInt(F32Floor(F32Mul(F32Clamp(x.n, -F32One, F32One),
                                             1258291199)),
                             -I32Max, I32Max))
    ELSE [v |-> 0, lo |-> 0, win |-> x.win, ph |-> x.ph, enc |-> "s24"]

\* the low byte left zero
Samp24_from_Samp16_zero(ch) ==
    [v |-> i16_from_Samp16(ch), lo |-> 0, win |-> <<>>, ph |-> 0,
     enc |-> "s24"]

\* From<Samp16> for Samp24:
\* Self(i16::from(ch), (i16::from(ch) >> 8) as u8 ^ 0b1000_0000)
Samp24_from_Samp16(ch) ==
    [v |-> i16_from_Samp16(ch),
     lo |-> BitXor(AsU8(Shr(i16_from_Samp16(ch), 8)), 128, 8),
     win |-> <<>>, ph |-> 0, enc |-> "s24"]

\* the sum wrapped to 24 bits instead of saturated
Samp24_add_wrapping(a, b) ==
    LET value == i32_from_Samp24(a) + i32_from_Samp24(b)
    IN  [v |-> AsI16(Shr(value, 8)), lo |-> AsU8(value), win |-> <<>>,
         ph |-> 0, enc |-> "s24"]

Samp24_add(a, b) == Samp24_new(i32_from_Samp24(a) + i32_from_Samp24(b))

Samp24_sub(a, b) == Samp24_new(i32_from_Samp24(a) - i32_from_Samp24(b))

\* floor(|l * r| / d) for |l|, |r| <= 2^23 and 0 < d < 2^23: the 48-bit
\* product, then long division from the top byte down; acc is
\* <<remainder, quotient>> so far
WideByte(hi, lo, k) ==
    IF k > 3 THEN (hi \div Pow2(8 * (k - 4))) % 256
    ELSE (lo \div Pow2(8 * (k - 1))) % 256

WideDivStep(t, d, q) == <<t % d, 256 * q + (t \div d)>>

RECURSIVE WideDivBits(_, _, _, _, _)
WideDivBits(hi, lo, d, k, acc) ==
    IF k = 0 THEN acc[2]
    ELSE WideDivBits(hi, lo, d, k - 1,
                     WideDivStep(256 * acc[1] + WideByte(hi, lo, k), d,
                                 acc[2]))

WideQuot(p, d) == WideDivBits(p[1], p[2], d, 6, <<0, 0>>)

WideMulDiv(l, r, d) == Sign(l) * Sign(r) * WideQuot(WideMul(Abs(l), Abs(r)), d)

\* Samp24 * Samp24: (l * r) / 8_388_607 in i64, clamped
Samp24_mul(a, b) ==
    Samp24_new(Clamp(WideMulDiv(i32_from_Samp24(a), i32_from_Samp24(b),
                                8388607),
                     -8388608, 8388607))

\* -Samp24: Self::new((u32::MAX - i32::from(self) as u32) as i32), the u32
\* in two 16-bit halves
Samp24_neg(s) ==
    LET x == i32_from_Samp24(s)
        h == 65535 - AsU16(Shr(x, 16))
        l == 65535 - AsU16(x)
    IN  Samp24_new(AsI16(h) * 65536 + l)

Samp32_new(value) == Samp(value, "s32")

Samp32_MAX == Samp32_new(F32One)

Samp32_MID == Samp32_new(0)

Samp32_MIN == Samp32_new(-F32One)

Samp32_to_f32(s) == F32(s.v)

Samp32_from_f32(x) ==
    IF x.win = <<>> THEN Samp32_new(x.n)
    ELSE [v |-> 0, lo |-> 0, win |-> x.win, ph |-> x.ph, enc |-> "s32"]

\* the sum clamped to [-1, 1]
Samp32_add_clamped(a, b) ==
    Samp32_new(F32Clamp(F32Add(a.v, b.v), -F32One, F32One))

Samp32_add(a, b) == Samp32_new(F32Add(a.v, b.v))

Samp32_sub(a, b) == Samp32_new(F32Sub(a.v, b.v))

Samp32_mul(a, b) == Samp32_new(F32Mul(a.v, b.v))

Samp32_neg(s) == Samp32_new(F32Neg(s.v))

Samp64_new(value) == Samp(value, "s64")

Samp64_MAX == Samp64_new(<<1, 0>>)

Samp64_MID == Samp64_new(<<0, 0>>)

Samp64_MIN == Samp64_new(<<-1, 0>>)

Samp64_to_f32(s) == F32(F64AsF32(s.v))

Samp64_from_f32(x) == Samp64_new(F64FromF32(x.n))

Samp64_add(a, b) == Samp64_new(F64Add(a.v, b.v))

Samp64_sub(a, b) == Samp64_new(F64Sub(a.v, b.v))

Samp64_mul(a, b) == Samp64_new(F64Mul(a.v, b.v))

Samp64_neg(s) == Samp64_new(F64Neg(s.v))

\* Sample::to_f32 of the encoding of s
to_f32(s) ==
    CASE s.enc = "s16" -> Samp16_to_f32(s)
      [] s.enc = "s24" -> Samp24_to_f32(s)
      [] s.enc = "s32" -> Samp32_to_f32(s)
      [] s.enc = "s64" -> Samp64_to_f32(s)

\* S::from(f32) for the destination encoding S
From_f32(x, S) ==
    CASE S = "s16" -> Samp16_from_f32(x)
      [] S = "s24" -> Samp24_from_f32(x)
      [] S = "s32" -> Samp32_from_f32(x)
      [] S = "s64" -> Samp64_from_f32(x)

\* S::from(sample) for the destination encoding S: the two integer
\* encodings convert directly, everything else goes through to_f32
Into(s, S) ==
    IF S = s.enc THEN s
    ELSE IF S = "s16" /\ s.enc = "s24" THEN Samp16_from_Samp24(s)
    ELSE IF S = "s24" /\ s.enc = "s16" THEN Samp24_from_Samp16(s)
    ELSE IF s.enc = "s24>s16" THEN s
    ELSE From_f32(to_f32(s), S)

Sample_default(S) ==
    CASE S = "s16" -> Samp16_new(0)
      [] S = "s24" -> Samp24_new(0)
      [] S = "s32" -> Samp32_new(0)
      [] S = "s64" -> Samp64_new(<<0, 0>>)

Sample_MIN(S) ==
    CASE S = "s16" -> Samp16_MIN
      [] S = "s24" -> Samp24_MIN
      [] S = "s32" -> Samp32_MIN
      [] S = "s64" -> Samp64_MIN

Sample_MID(S) ==
    CASE S = "s16" -> Samp16_MID
      [] S = "s24" -> Samp24_MID
      [] S = "s32" -> Samp32_MID
      [] S = "s64" -> Samp64_MID

Sample_MAX(S) ==
    CASE S = "s16" -> Samp16_MAX
      [] S = "s24" -> Samp24_MAX
      [] S = "s32" -> Samp32_MAX
      [] S = "s64" -> Samp64_MAX

\* a + b, a - b, a * b and -a in the encoding of a
Sample_add(a, b) ==
    CASE a.enc = "s16" -> Samp16_add(a, b)
      [] a.enc = "s24" -> Samp24_add(a, b)
      [] a.enc = "s32" -> Samp32_add(a, b)
      [] a.enc = "s64" -> Samp64_add(a, b)

Sample_sub(a, b) ==
    CASE a.enc = "s16" -> Samp16_sub(a, b)
      [] a.enc = "s24" -> Samp24_sub(a, b)
      [] a.enc = "s32" -> Samp32_sub(a, b)
      [] a.enc = "s64" -> Samp64_sub(a, b)

Sample_mul(a, b) ==
    CASE a.enc = "s16" -> Samp16_mul(a, b)
      [] a.enc = "s24" -> Samp24_mul(a, b)
      [] a.enc = "s32" -> Samp32_mul(a, b)
      [] a.enc = "s64" -> Samp64_mul(a, b)

Sample_neg(a) ==
    CASE a.enc = "s16" -> Samp16_neg(a)
      [] a.enc = "s24" -> Samp24_neg(a)
      [] a.enc = "s32" -> Samp32_neg(a)
      [] a.enc = "s64" -> Samp64_neg(a)

\* Sample::lerp: self + t * (rhs - self)
Sample_lerp(a, b, t) == Sample_add(a, Sample_mul(t, Sample_sub(b, a)))

\* ------------------------------------------------------------------ frames
\* mono written to slot 0 only
to_1_first(frame, S, N) ==
    [i \in 1..N |-> IF i = 1 THEN Into(frame[1], S) ELSE Sample_default(S)]

\* Frame::to_1: mono goes to slot 0 and, if there is one, to slot 1
to_1(frame, S, N) ==
    [i \in 1..N |-> IF i <= 2 THEN Into(frame[1], S) ELSE Sample_default(S)]

\* the mix of left and right scaled by MAX, not by one half
to_2_unscaled(frame, S, N) ==
    IF N = 1
    THEN <<Sample_add(Sample_mul(Into(frame[1], S), Sample_MAX(S)),
                      Sample_mul(Into(frame[2], S), Sample_MAX(S)))>>
    ELSE [i \in 1..N |-> IF i = 1 THEN Into(frame[1], S)
                         ELSE IF i = 2 THEN Into(frame[2], S)
                         ELSE Sample_default(S)]

\* Frame::to_2: a mono destination gets left * half + right * half with
\* half = S::from(0.5); otherwise left and right go to slots 0 and 1 and
\* every other slot keeps the default sample.
to_2_mix(left, right, half) ==
    <<Sample_add(Sample_mul(left, half), Sample_mul(right, half))>>

to_2_put(c, S, N) ==
    IF N = 1 THEN to_2_mix(c[1], c[2], From_f32(F32(F32Half), S))
    ELSE [i \in 1..N |-> IF i <= 2 THEN c[i] ELSE Sample_default(S)]

to_2(frame, S, N) == to_2_put([i \in 1..2 |-> Into(frame[i], S)], S, N)

\* ----------------------------------------------------------------- panning
\* core::f32::consts::PI and FRAC_PI_2
F32Pi == 1078530011

F32FracPi2 == 1070141403

\* k / 4 as f32
Quarter(k) == F32Round(Sign(k), Abs(k), -2, FALSE)

\* f32::min, f32::trunc, f32::fract and f32::rem_euclid(1.0)
F32Min(a, b) == IF a < b THEN a ELSE b

F32Trunc(x) == Sign(x) * F32Floor(Abs(x))

F32Fract(x) == F32Sub(x, F32Trunc(x))

F32RemEuclid(r) == IF r < 0 THEN F32Add(r, F32One) ELSE r

rem_euclid(x) == F32RemEuclid(F32Fract(x))

\* a / b for the whole numbers a and b, as the f32 constant it is
Ratio(a, b) == F32Div(F32FromInt(a), F32FromInt(b))

\* degrees / 360.0: a part of the full turn
Turn(degrees) == Ratio(degrees, 360)

\* x.cos() and x.sin() of math::Libm, for the arguments the panning of the
\* angles below leads to: the f32 nearest to the cosine and to the sine.
\* A row is <<x, cos x, sin x>>.
CosSinRows ==
    {<<0, 1065353216, 0>>,
    <<872497421, 1065353216, 872497421>>,
    <<880886029, 1065353216, 880886029>>,
    <<881680166, 1065353216, 881680166>>,
    <<884768477, 1065353216, 884768477>>,
    <<890068774, 1065353216, 890068774>>,
    <<890686436, 1065353216, 890686436>>,
    <<899075044, 1065353216, 899075044>>,
    <<1021692161, 1065346616, 1021690186>>,
    <<1021692226, 1065346616, 1021690251>>,
    <<1044975529, 1065030849, 1044891025>>,
    <<1044975585, 1065030846, 1044891080>>,
    <<1049599389, 1064697517, 1049476451>>,
    <<1049599393, 1064697517, 1049476455>>,
    <<1050069987, 1064630795, 1049927729>>,
    <<1050069996, 1064630794, 1049927737>>,
    <<1051900104, 1064341425, 1051663689>>,
    <<1053364174, 1064076129, 1053028106>>,
    <<1053364186, 1064076127, 1053028117>>,
    <<1053364187, 1064076126, 1053028118>>,
    <<1053364193, 1064076125, 1053028123>>,
    <<1055246581, 1063691750, 1054746110>>,
    <<1055246585, 1063691749, 1054746114>>,
    <<1057360534, 1063105493, 1056964612>>,
    <<1057517397, 1063026428, 1057100090>>,
    <<1057517399, 1063026427, 1057100092>>,
    <<1058458596, 1062525745, 1057896922>>,
    <<1060929245, 1061007097, 1059842890>>,
    <<1060929249, 1061007094, 1059842893>>,
    <<1061752795, 1060439283, 1060439283>>,
    <<1061752797, 1060439282, 1060439285>>,
    <<1061752801, 1060439279, 1060439288>>,
    <<1062576348, 1059842887, 1061007100>>,
    <<1065046994, 1057896921, 1062525746>>,
    <<1065046997, 1057896919, 1062525747>>,
    <<1065670704, 1057100091, 1063026428>>,
    <<1065670706, 1057100087, 1063026430>>,
    <<1065749136, 1056964611, 1063105494>>,
    <<1065749137, 1056964609, 1063105495>>,
    <<1065749138, 1056964607, 1063105496>>,
    <<1065749142, 1056964593, 1063105500>>,
    <<1066376605, 1054746111, 1063691750>>,
    <<1066376607, 1054746104, 1063691752>>,
    <<1066847203, 1053028121, 1064076126>>,
    <<1066847204, 1053028117, 1064076126>>,
    <<1066847207, 1053028106, 1064076129>>,
    <<1067213225, 1051663688, 1064341425>>,
    <<1067670756, 1049927720, 1064630796>>,
    <<1067788404, 1049476449, 1064697518>>,
    <<1067788405, 1049476445, 1064697518>>,
    <<1068494304, 1044891068, 1065030847>>,
    <<1068494307, 1044891045, 1065030848>>,
    <<1069906103, 1021690162, 1065346616>>,
    <<1069906104, 1021690098, 1065346616>>,
    <<1070141400, 883460186, 1065353216>>,
    <<1070141403, -859553070, 1065353216>>,
    <<1071605492, -1043452124, 1065098332>>,
    <<1071788502, -1044891074, 1065030846>>,
    <<1073435602, -1053028120, 1064076126>>,
    <<1074137745, -1056964603, 1063105497>>,
    <<1074412263, -1057896924, 1062525744>>,
    <<1075235812, -1060439283, 1060439283>>,
    <<1076059362, -1062525746, 1057896921>>,
    <<1076333879, -1063105497, 1056964602>>,
    <<1076882912, -1064076128, 1053028112>>,
    <<1077706461, -1065030847, 1044891073>>,
    <<1077797966, -1065098332, 1043452124>>,
    <<1078530011, -1065353216, -867941678>>,
    <<1079353561, -1065030846, -1044891085>>,
    <<1080177110, -1064076126, -1053028117>>,
    <<1080726145, -1063105491, -1056964615>>,
    <<1081000660, -1062525744, -1057896923>>}

CosSin ==
    [x \in {r[1] : r \in CosSinRows} |->
        CHOOSE r \in CosSinRows : r[1] = x]

Cos(x) == CosSin[x][2]

Sin(x) == CosSin[x][3]

\* x.cos() for the first speaker of an arc, x.sin() for the second
Gain(x, first) == IF first THEN Cos(x) ELSE Sin(x)

\* the cosine taken for both speakers
pan_arc_cos(frame, samp, x, a, b) ==
    [i \in 1..Len(frame) |->
        IF i = a \/ i = b
        THEN Sample_add(frame[i],
                        Sample_mul(samp, From_f32(F32(Cos(x)), samp.enc)))
        ELSE frame[i]]

\* self.0[A] += samp * x.cos().into(); self.0[B] += samp * x.sin().into()
pan_arc(frame, samp, x, a, b) ==
    [i \in 1..Len(frame) |->
        IF i = a \/ i = b
        THEN Sample_add(frame[i],
                        Sample_mul(samp,
                                   From_f32(F32(Gain(x, i = a)), samp.enc)))
        ELSE frame[i]]

\* An arm of the match of pan_N, in degrees: taken while x < hi / 360.0 (the
\* last arm takes what is left); x is measured from at / 360.0, in arcs of
\* per degrees, between the speaker of slot cos and the speaker of slot sin.
Arc(hi, at, per, cos, sin) ==
    [hi |-> hi, at |-> at, per |-> per, cos |-> cos, sin |-> sin]

\* The first arm whose guard holds
ArcOf(arcs, x) ==
    arcs[CHOOSE i \in 1..Len(arcs) :
            /\ i = Len(arcs) \/ x < Turn(arcs[i].hi)
            /\ \A j \in 1..(i - 1) : ~(x < Turn(arcs[j].hi))]

\* let x = (360.0 / per) * (x - at / 360.0) * FRAC_PI_2
Radians(arc, x) ==
    F32Mul(F32Mul(Ratio(360, arc.per), F32Sub(x, Turn(arc.at))), F32FracPi2)

pan_arm(frame, samp, arc, x) ==
    pan_arc(frame, samp, Radians(arc, x), arc.cos, arc.sin)

pan_match(frame, samp, arcs, x) ==
    pan_arm(frame, samp, ArcOf(arcs, x), x)

\* the + 1.0 / 12.0 of pan_4, which makes 0 the front left speaker
Shifted(y, COUNT) == IF COUNT = 4 THEN F32Add(y, Ratio(1, 12)) ELSE y

\* (x.fract() + 1.0).fract(), and (x.fract() + 1.0 + 1.0 / 12.0).fract()
\* in pan_4
Wrapped(x, COUNT) ==
    F32Fract(Shifted(F32Add(F32Fract(x), F32One), COUNT))

\* SURROUND_L and SURROUND_R are slots 3 and 4 of pan_5, 4 and 5 of pan_6
Arcs_5(L, R) ==
    <<Arc(30, 0, 30, 3, 2),
      Arc(110, 30, 80, 2, R),
      Arc(250, 110, 140, R, L),
      Arc(330, 250, 80, L, 1),
      Arc(360, 330, 30, 1, 3)>>

\* Frame::pan_1 and pan_2; slot k of the source is slot k + 1 here
pan_1(frame, samp, x) == [frame EXCEPT ![1] = Sample_add(frame[1], samp)]

pan_2(frame, samp, x) ==
    pan_arc(frame, samp, F32Mul(F32Add(x, Quarter(1)), F32Pi), 1, 2)

\* Frame::pan_3 .. pan_8: the arms of the match (0.25 is 90.0 / 360.0 and
\* 4.0 is 360.0 / 90.0)
pan_3 ==
    <<Arc(90, 0, 90, 3, 2),
      Arc(180, 90, 90, 2, 3),
      Arc(270, 180, 90, 3, 1),
      Arc(360, 270, 90, 1, 3)>>

pan_4 ==
    <<Arc(60, 0, 60, 1, 2),
      Arc(140, 60, 80, 2, 4),
      Arc(280, 140, 140, 4, 3),
      Arc(360, 280, 80, 3, 1)>>

pan_5 == Arcs_5(4, 5)

pan_6 == Arcs_5(5, 6)

pan_7 ==
    <<Arc(30, 0, 30, 3, 2),
      Arc(90, 30, 60, 2, 7),
      Arc(180, 90, 90, 7, 5),
      Arc(270, 180, 90, 5, 6),
      Arc(330, 270, 60, 6, 1),
      Arc(360, 330, 30, 1, 3)>>

pan_8 ==
    <<Arc(30, 0, 30, 3, 2),
      Arc(90, 30, 60, 2, 8),
      Arc(150, 90, 60, 8, 6),
      Arc(210, 150, 60, 6, 5),
      Arc(270, 210, 60, 5, 7),
      Arc(330, 270, 60, 7, 1),
      Arc(360, 330, 30, 1, 3)>>

Arms(COUNT) ==
    CASE COUNT = 3 -> pan_3
      [] COUNT = 4 -> pan_4
      [] COUNT = 5 -> pan_5
      [] COUNT = 6 -> pan_6
      [] COUNT = 7 -> pan_7
      [] COUNT = 8 -> pan_8

\* the match of Frame::pan on the channel count
pan_count(frame, samp, x) ==
    CASE Len(frame) = 1 -> pan_1(frame, samp, x)
      [] Len(frame) = 2 -> pan_2(frame, samp, x)
      [] OTHER -> pan_match(frame, samp, Arms(Len(frame)),
                            Wrapped(x, Len(frame)))

\* Frame::pan: the sample goes into the encoding S of the frame, the angle
\* into [0, 1)
pan(frame, S, sample, angle) ==
    pan_count(frame, Into(sample, S), rem_euclid(angle))

\* Frame::<S, N>::default()
Silent(S, N) == [i \in 1..N |-> Sample_default(S)]

\* ------------------------------------------------------- layout conversion
\* (N as f32 / count).min(1.0)
amplitude(N, count) == F32Min(Ratio(N, count), F32One)

\* sample * amplitude.into()
Scaled(sample, amp) == Sample_mul(sample, From_f32(F32(amp), sample.enc))

\* The chain of .pan(sample * amplitude.into(), angle) calls; an item is
\* <<slot of the source, degrees of its azimuth>>
RECURSIVE pan_each(_, _, _, _, _)
pan_each(frame, S, source, items, amp) ==
    IF Len(frame) = 0 \/ items = <<>> THEN frame
    ELSE pan_each(pan(frame, S, Scaled(source[items[1][1]], amp),
                      Turn(items[1][2])),
                  S, source, Tail(items), amp)

\* Frame::to_4 .. to_8: the divisor of the amplitude, and the source slots
\* with the azimuths they are panned at, in the order of the calls; 0.0 is
\* 0 / 360 and 0.5 is 180 / 360
to_4 ==
    [count |-> 4,
     pans |-> <<<<1, -30>>, <<2, 30>>, <<3, -110>>, <<4, 110>>>>]

to_5 ==
    [count |-> 5,
     pans |-> <<<<1, -30>>, <<2, 30>>, <<4, -110>>, <<5, 110>>, <<3, 0>>>>]

to_6 ==
    [count |-> 5,
     pans |-> <<<<1, -30>>, <<2, 30>>, <<5, -110>>, <<6, 110>>, <<3, 0>>>>]

to_7 ==
    [count |-> 6,
     pans |-> <<<<1, -30>>, <<2, 30>>, <<6, -90>>, <<7, 90>>, <<3, 0>>,
                <<5, 180>>>>]

to_8 ==
    [count |-> 7,
     pans |-> <<<<1, -30>>, <<2, 30>>, <<7, -90>>, <<8, 90>>, <<3, 0>>,
                <<5, -150>>, <<6, 150>>>>]

to_count(COUNT) ==
    CASE COUNT = 4 -> to_4
      [] COUNT = 5 -> to_5
      [] COUNT = 6 -> to_6
      [] COUNT = 7 -> to_7
      [] COUNT = 8 -> to_8

Speakers(COUNT) == to_count(COUNT).pans

\* the LFE of to_6 .. to_8:
\* if N < 5 { frame.pan(lfe, 0.5) } else { frame.0[3] = lfe.into() }
put_lfe(frame, S, lfe) ==
    IF Len(frame) < 5 THEN pan(frame, S, lfe, F32Half)
    ELSE [frame EXCEPT ![4] = Into(lfe, S)]

\* to_4 and to_5 have no LFE to place
with_lfe(frame, S, source, amp) ==
    IF Len(source) < 6 THEN frame
    ELSE put_lfe(frame, S, Scaled(source[4], amp))

\* The body of to_4 .. to_8 for the amplitude amp: the pans over a silent
\* frame and, from a source with an LFE slot, the LFE
mix(frame, S, N, amp) ==
    with_lfe(pan_each(Silent(S, N), S, frame, Speakers(Len(frame)), amp),
             S, frame, amp)

\* Frame::to_3: thirds into one, two or four channels, else a copy
to_3_put(c, S, N, third, twice) ==
    CASE N = 1 ->
            <<Sample_add(Sample_add(Sample_mul(c[1], third),
                                    Sample_mul(c[2], third)),
                         Sample_mul(c[3], third))>>
      [] N = 2 \/ N = 4 ->
            [i \in 1..N |->
                Sample_add(Sample_mul(c[2 - (i % 2)], twice),
                           Sample_mul(c[3], third))]
      [] OTHER -> [i \in 1..N |-> IF i <= 3 THEN c[i] ELSE Sample_default(S)]

to_3(frame, S, N) ==
    to_3_put([i \in 1..3 |-> Into(frame[i], S)], S, N,
             From_f32(F32(Ratio(1, 3)), S), From_f32(F32(Ratio(2, 3)), S))

\* Frame::to: the match on the channel count of the source
Frame_to(frame, S, N) ==
    CASE Len(frame) = 1 -> to_1(frame, S, N)
      [] Len(frame) = 2 -> to_2(frame, S, N)
      [] Len(frame) = 3 -> to_3(frame, S, N)
      [] OTHER -> mix(frame, S, N, amplitude(N, to_count(Len(frame)).count))

RECURSIVE MapTo(_, _, _)
MapTo(frames, S, N) ==
    IF frames = <<>> THEN <<>>
    ELSE <<Frame_to(Head(frames), S, N)>> \o MapTo(Tail(frames), S, N)

\* -------------------------------------------------------------------- sink
\* Audio::with_silence(hz, len).sink(), optionally wrapped by SinkTo::new.
\* S is the encoding of the frames the (outer) sink accepts.
InnerCount(wrapped) == IF wrapped THEN 3 ELSE 2

Frame_default(N) == [i \in 1..N |-> Samp16_default]

Audio_sink(hz, len, wrapped, S) ==
    [hz |-> hz,
     buf |-> [i \in 1..len |-> Frame_default(InnerCount(wrapped))],
     index |-> 0,
     wrapped |-> wrapped,
     S |-> S]

Sink_sample_rate(sink) == sink.hz

Sink_len(sink) == Len(sink.buf)

\* The loop of AudioSink::sink_with: one slot after the other, from the
\* slot the iterator was positioned at by skip(index).
RECURSIVE SinkLoop(_, _, _, _)
SinkLoop(buf, index, slot, iter) ==
    IF slot > Len(buf) \/ iter = <<>>
    THEN [buf |-> buf, index |-> index, rest |-> iter]
    ELSE SinkLoop([buf EXCEPT ![slot] = Head(iter)], index + 1, slot + 1,
                  Tail(iter))

\* the slot iterator without skip(index)
SkipFrom_start(index) == 1

SkipFrom(index) == index + 1

AudioSink_sink_with(sink, iter) ==
    LET r == SinkLoop(sink.buf, sink.index, SkipFrom(sink.index), iter)
    IN  [sink |-> [sink EXCEPT !.buf = r.buf, !.index = r.index],
         pulled |-> Len(iter) - Len(r.rest)]

\* SinkTo::sink_with: the inner sink pulls from iter.map(Frame::to); map is
\* lazy, so a frame is converted only when the inner sink pulls it.
\* the frames forwarded as they come
SinkTo_map_none(iter) == iter

SinkTo_map(iter) == MapTo(iter, "s16", 3)

SinkTo_sink_with(sink, iter) == AudioSink_sink_with(sink, SinkTo_map(iter))

Sink_sink_with(sink, iter) ==
    IF sink.wrapped THEN SinkTo_sink_with(sink, iter)
    ELSE AudioSink_sink_with(sink, iter)

\* --------------------------------------------------- resampler state (speex)
\* One channel's filter state.  mem holds the last filt_len - 1 input
\* values (the filter history); last_sample and samp_frac_num are the whole
\* and the fractional part of the position of the next output sample.
ResamplerState_default ==
    [started |-> 0, samp_frac_num |-> 0, last_sample |-> 0, filt_len |-> 0,
     int_advance |-> 0, frac_advance |-> 0, mem |-> <<>>]

Resampler32_default ==
    [state |-> ResamplerState_default, input |-> <<>>, output |-> <<>>]

_muldiv(value, mul, div) == (value * mul) \div div

\* The last len values of mem, padded with silence in front.
FitHistory(mem, len) ==
    [i \in 1..len |->
        IF i + Len(mem) - len >= 1 THEN mem[i + Len(mem) - len] ELSE F32(0)]

\* The filter is redesigned for the ratio num / den: the kernel is widened
\* in proportion when downsampling.
update_filter(state, num, den) ==
    LET flen == IF num > den THEN _muldiv(BaseFiltLen, num, den)
                ELSE BaseFiltLen
    IN  [state EXCEPT
            !.filt_len = flen,
            !.int_advance = num \div den,
            !.frac_advance = num % den,
            !.mem = IF state.started = 0 THEN [i \in 1..(flen - 1) |-> F32(0)]
                    ELSE FitHistory(state.mem, flen - 1)]

\* One output of the interpolated windowed-sinc filter: a function of the
\* window of input values and of the phase; silence in gives silence out.
Filter(window, ph) ==
    IF \A i \in 1..Len(window) : window[i] = 0 THEN F32(0)
    ELSE [n |-> 0, win |-> window, ph |-> ph]

\* The output loop: one output per step while input remains and the output
\* has room; the phase advances by num / den per output sample.
RECURSIVE resampler_basic(_, _, _, _, _, _, _)
resampler_basic(state, x, ilen, limit, den, pos, outs) ==
    IF pos.last >= ilen \/ Len(outs) >= limit
    THEN [last |-> pos.last, frac |-> pos.frac, outs |-> outs]
    ELSE LET o == Filter([i \in 1..state.filt_len |-> x[pos.last + i].n],
                         pos.frac)
             f == pos.frac + state.frac_advance
             carry == IF f >= den THEN 1 ELSE 0
         IN  resampler_basic(state, x, ilen, limit, den,
                             [last |-> pos.last + state.int_advance + carry,
                              frac |-> f - carry * den],
                             Append(outs, o))

\* process_float(in, &mut in_len, out, &mut out_len, den): at most
\* min(out_len, out.len()) outputs; in_len and out_len return what was
\* consumed and produced.
process_float(state, input, outcap, out_len, den) ==
    LET x == state.mem \o input
        ilen == Len(input)
        r == resampler_basic(state, x, ilen, Min(out_len, outcap), den,
                             [last |-> state.last_sample,
                              frac |-> state.samp_frac_num], <<>>)
        used == Min(r.last, ilen)
    IN  [state |-> [state EXCEPT
                        !.started = 1,
                        !.last_sample = r.last - used,
                        !.samp_frac_num = r.frac,
                        !.mem = SubSeq(x, used + 1, used + state.filt_len - 1)],
         outs |-> r.outs,
         in_len |-> used,
         out_len |-> Len(r.outs)]

\* ------------------------------------------------------------------ stream
RECURSIVE gcd_loop(_, _)
gcd_loop(a, b) ==
    IF a /= 0 THEN gcd_loop(b % a, a) ELSE b

\* gcd: while a != 0 { swap(a, b); a %= b }; b
gcd(a, b) == IF b = 0 THEN a ELSE gcd_loop(a, b)

\* the ratio turned upside down
simplify_swapped(num, den) ==
    LET factor == gcd(num, den) IN <<den \div factor, num \div factor>>

\* the ratio left as it is
simplify_unreduced(num, den) == <<num, den>>

simplify(num, den) ==
    LET factor == gcd(num, den) IN <<num \div factor, den \div factor>>

\* Stream::new(target_hz); input_sample_rate 0 stands for None
Stream_new(target_hz) ==
    [output_sample_rate |-> target_hz,
     input_sample_rate |-> 0,
     ratio |-> <<0, 1>>,
     samples |-> [ch \in 1..NSlots |-> Resampler32_default],
     input_latency |-> 0]

\* the fractional phase carried over as it is, not rescaled
source_hz_chan_kept(ch, num, den, old_den) ==
    [ch EXCEPT !.state = update_filter(ch.state, num, den)]

\* The body of the per-channel loop of source_hz
source_hz_chan(ch, num, den, old_den) ==
    LET v == _muldiv(ch.state.samp_frac_num, den, old_den)
        frac == IF v >= den THEN den - 1 ELSE v
    IN  [ch EXCEPT !.state =
            update_filter([ch.state EXCEPT !.samp_frac_num = frac], num, den)]

\* only the first channel prepared for the rate change
source_hz_first(st) == {1}

\* The channels source_hz prepares: all of self.samples
source_hz_chans(st) == 1..NSlots

source_hz(st, hz) ==
    LET ratio == simplify(hz, st.output_sample_rate)
        num == ratio[1]
        den == ratio[2]
        samples == [c \in 1..NSlots |->
                      IF c \in source_hz_chans(st)
                      THEN source_hz_chan(st.samples[c], num, den, st.ratio[2])
                      ELSE st.samples[c]]
    IN  IF hz /= st.input_sample_rate
        THEN [st EXCEPT !.samples = samples,
                        !.input_latency = samples[NSlots].state.filt_len \div 2,
                        !.ratio = ratio,
                        !.input_sample_rate = hz]
        ELSE st

\* output.resize(len, 0.0), then the first Len(outs) entries overwritten
Resized(output, len, outs) ==
    [i \in 1..len |-> IF i <= Len(outs) THEN outs[i]
                      ELSE IF i <= Len(output) THEN output[i]
                      ELSE F32(0)]

\* The per-channel loop of resample_audio; out is shared by the channels.
RECURSIVE ResampleChans(_, _, _, _, _, _, _)
ResampleChans(samples, chan, out, cap, den, counts, used) ==
    IF chan > NChan
    THEN [samples |-> samples, out |-> out, counts |-> counts, used |-> used]
    ELSE LET s == samples[chan]
             r == process_float(s.state, s.input, cap, out, den)
         IN  ResampleChans(
                [samples EXCEPT ![chan] =
                    [state |-> r.state, input |-> s.input,
                     output |-> Resized(s.output, cap, r.outs)]],
                chan + 1, r.out_len, cap, den,
                Append(counts, r.out_len), Append(used, r.in_len))

OutCap(sink) == Sink_len(sink)

\* The frames the closure of resample_audio yields for i in 0..out
OutFrames(samples, out, S) ==
    [i \in 1..out |-> [c \in 1..NChan |-> From_f32(samples[c].output[i], S)]]

\* resample_audio after sink.sink_with: r is what the channel loop left,
\* k what the sink did with the frames
resample_audio_done(st, r, frames, k) ==
    [st |-> [st EXCEPT !.samples = r.samples], sink |-> k.sink,
     ran |-> TRUE, out |-> r.out, counts |-> r.counts,
     used |-> r.used, given |-> frames, pulled |-> k.pulled]

\* sink.sink_with(&mut iter) of resample_audio
resample_audio_sink(st, sink, r, frames) ==
    resample_audio_done(st, r, frames, Sink_sink_with(sink, frames))

\* resample_audio after the channel loop
resample_audio_out(st, sink, r) ==
    resample_audio_sink(st, sink, r, OutFrames(r.samples, r.out, sink.S))

resample_audio(st, sink) ==
    IF st.samples[1].input = <<>>
    THEN [st |-> st, sink |-> sink, ran |-> FALSE, out |-> 0,
          counts |-> <<>>, used |-> <<>>, given |-> <<>>, pulled |-> 0]
    ELSE resample_audio_out(st, sink,
             ResampleChans(st.samples, 1, U32Max, OutCap(sink),
                           st.ratio[2], <<>>, <<>>))

\* input.clear() and the pushes that follow it, for the N channels
SetInput(st, cols) ==
    [st EXCEPT !.samples =
        [c \in 1..NSlots |->
            IF c <= NChan THEN [st.samples[c] EXCEPT !.input = cols[c]]
            ELSE st.samples[c]]]

\* The caller's recording: frame k of it, and the n frames after the first
\* pos.  Every frame and both channels of a frame differ.
TapeFrame(k) == <<Samp24_new(256 * k + 7), Samp24_new(-256 * k - 9)>>

Tape(pos, n) == [i \in 1..n |-> TapeFrame(pos + i)]

\* The samples of the recording, and the f32 value of each, computed once
TapeSamples ==
    {TapeFrame(k)[c] : k \in 1..(MaxCalls * MaxAudio), c \in 1..NChan}

TapeF32 == [s \in TapeSamples |-> Samp24_to_f32(s)]

\* frame.to::<Samp32, N>() and to_f32() of one sample of the input
InputF32(s) == IF s \in TapeSamples THEN TapeF32[s] ELSE Samp24_to_f32(s)

\* the new input pushed behind the old, without input.clear()
PipeInput_append(old, audio, chan) ==
    old \o [i \in 1..Len(audio) |-> InputF32(audio[i][chan])]

\* De-interleaved input of pipe: frame.to::<Samp32, N>() and to_f32()
PipeInput(old, audio, chan) ==
    [i \in 1..Len(audio) |-> InputF32(audio[i][chan])]

\* The zeros flush feeds
FlushInput(old, latency) == [i \in 1..latency |-> F32(0)]

\* the rate test of the fast path turned around
FastPath_ne(st, sink, hz) ==
    st.samples[1].state.started = 0 /\ Sink_sample_rate(sink) /= hz

FastPath(st, sink, hz) ==
    st.samples[1].state.started = 0 /\ Sink_sample_rate(sink) = hz

NoStep(st, sink, path) ==
    [st |-> st, sink |-> sink, path |-> path, ran |-> FALSE, out |-> 0,
     counts |-> <<>>, used |-> <<>>, given |-> <<>>, pulled |-> 0]

Step(r, path) ==
    [st |-> r.st, sink |-> r.sink, path |-> path, ran |-> r.ran,
     out |-> r.out, counts |-> r.counts, used |-> r.used, given |-> r.given,
     pulled |-> r.pulled]

\* the fast path after sink.sink_with
pipe_copied(st, frames, k) ==
    [NoStep(st, k.sink, "copy") EXCEPT !.given = frames, !.pulled = k.pulled]

\* sink.sink_with(&mut audio.iter().map(|x| x.to())) of the fast path
pipe_copy(st, sink, frames) ==
    pipe_copied(st, frames, Sink_sink_with(sink, frames))

\* the de-interleaved input put into the channels of s1
pipe_input(s1, audio) ==
    SetInput(s1, [c \in 1..NChan |->
                    PipeInput(s1.samples[c].input, audio, c)])

\* pipe from the fast-path test on
pipe_body(st, sink, audio, hz) ==
    IF FastPath(st, sink, hz)
    THEN pipe_copy(st, sink, MapTo(audio, sink.S, NChan))
    ELSE Step(resample_audio(
                  pipe_input(IF hz /= st.input_sample_rate
                             THEN source_hz(st, hz) ELSE st, audio),
                  sink),
              "resample")

\* pipe with the rate assertion moved behind the processing
pipe_assert_last(st, sink, audio, hz) ==
    IF Sink_sample_rate(sink) /= st.output_sample_rate
    THEN [pipe_body(st, sink, audio, hz) EXCEPT !.path = "abort"]
    ELSE pipe_body(st, sink, audio, hz)

\* Stream::pipe; sink is the caller's sink, audio the frames at rate hz
pipe(st, sink, audio, hz) ==
    IF Sink_sample_rate(sink) /= st.output_sample_rate
    THEN NoStep(st, sink, "abort")
    ELSE pipe_body(st, sink, audio, hz)

\* flush without the test of started
flush_unguarded(st, sink) ==
    Step(resample_audio(
             SetInput(st, [c \in 1..NChan |->
                 FlushInput(st.samples[c].input, st.input_latency)]),
             sink),
         "resample")

\* Stream::flush
flush(st, sink) ==
    IF st.samples[1].state.started = 0
    THEN NoStep(st, sink, "skip")
    ELSE Step(resample_audio(
                  SetInput(st, [c \in 1..NChan |->
                      FlushInput(st.samples[c].input, st.input_latency)]),
                  sink),
              "resample")

\* Audio::with_audio for Audio<Samp16, 3> from Audio<Samp24, 2> at rate src:
\* a new stream and a new buffer of ceil(len * hz / src) frames behind
\* SinkTo; pipe, then flush.
with_audio_len(hz, audio, src) == CeilDiv(Len(audio) * hz, src)

\* stream.flush(&mut sink) of with_audio, p the outcome of its pipe
with_audio_flush(sink0, p) ==
    [sink0 |-> sink0, p |-> p, f |-> flush(p.st, p.sink)]

\* stream.pipe(audio, &mut sink) of with_audio
with_audio_pipe(hz, sink0, audio, src) ==
    with_audio_flush(sink0, pipe(Stream_new(hz), sink0, audio, src))

with_audio(hz, audio, src) ==
    with_audio_pipe(hz, Audio_sink(hz, with_audio_len(hz, audio, src), TRUE,
                                   "s16"),
                    audio, src)

\* ------------------------------------------------------------ raw buffers
\* size_of::<Samp>() and size_of::<Frame<Samp, COUNT>>() in bytes
size_of(S) ==
    CASE S = "u8" -> 1
      [] S = "s16" -> 2
      [] S = "s24" -> 3
      [] S = "s32" -> 4
      [] S = "s64" -> 8

size_of_Frame(S, COUNT) == COUNT * size_of(S)

\* The common body of the with_*_buffer constructors: n elements of type
\* elem are counted as n * size_of(unit) bytes, cut into frames of
\* size_of::<Frame<cut, COUNT>>() bytes and handed over as len frames of
\* encoding S.  held is the size of the allocation, span what len frames
\* of S cover; a span beyond the allocation is undefined behaviour.
with_buffer(elem, unit, cut, S, n, COUNT) ==
    [aborted |-> (n * size_of(unit)) % size_of_Frame(cut, COUNT) /= 0,
     len |-> (n * size_of(unit)) \div size_of_Frame(cut, COUNT),
     held |-> n * size_of(elem),
     span |-> ((n * size_of(unit)) \div size_of_Frame(cut, COUNT))
              * size_of_Frame(S, COUNT)]

with_i16_buffer(n, COUNT) == with_buffer("s16", "s16", "s16", "s16", n, COUNT)

with_u8_buffer(n, COUNT) == with_buffer("u8", "s16", "s16", "s24", n, COUNT)

with_f32_buffer(n, COUNT) == with_buffer("s32", "s32", "s32", "s32", n, COUNT)

with_f64_buffer(n, COUNT) == with_buffer("s64", "s64", "s64", "s64", n, COUNT)

\* ------------------------------------------------------------------- state
VARIABLES
    st,        \* the Stream
    sink,      \* the caller's sink
    pc,        \* "running", "flushed" (stream consumed) or "aborted"
    calls,     \* number of calls made
    piped,     \* history: the frames piped into the stream, in order
    rates,     \* history: the source rates piped at
    accepted,  \* history: the frames the AudioSink accepted, in order
    direct,    \* history: sink_with was called by the user directly
    pending,   \* input samples of a channel the last step left unconsumed
    lost,      \* history: unconsumed input samples cleared from the backlog
    last,      \* history: the last call, with the state it started from
    tape,      \* number of frames read from the caller's recording
    fn,        \* the sample or frame function applied, "none" before
    arg,       \* its arguments
    ret        \* its result

vars == <<st, sink, pc, calls, piped, rates, accepted, direct, pending, lost,
          last, tape, fn, arg, ret>>

SinkKinds == {<<FALSE, "s16">>, <<TRUE, "s24">>}

NoFn == [name |-> "none", S |-> "none", N |-> 0]

NoCall ==
    [op |-> "none", path |-> "none", hz |-> 0, audio |-> <<>>,
     st0 |-> Stream_new(1), sink0 |-> Audio_sink(1, 0, FALSE, "s16"),
     given |-> <<>>, pulled |-> 0, out |-> 0, counts |-> <<>>, ran |-> FALSE]

Call(op, hz, audio, st0, sink0, r) ==
    [op |-> op, path |-> r.path, hz |-> hz, audio |-> audio,
     st0 |-> st0, sink0 |-> sink0, given |-> r.given, pulled |-> r.pulled,
     out |-> r.out, counts |-> r.counts, ran |-> r.ran]

\* The frames the AudioSink took out of the frames given to the outer sink
Taken(sink0, given, pulled) ==
    SubSeq(IF sink0.wrapped THEN SinkTo_map(given) ELSE given, 1, pulled)

Init ==
    /\ \E t \in Hz : st = Stream_new(t)
    /\ \E hz \in Hz, len \in 0..MaxSinkLen, k \in SinkKinds :
            sink = Audio_sink(hz, len, k[1], k[2])
    /\ pc = "running"
    /\ calls = 0
    /\ piped = <<>>
    /\ rates = {}
    /\ accepted = <<>>
    /\ direct = FALSE
    /\ pending = 0
    /\ lost = 0
    /\ last = NoCall
    /\ tape = 0
    /\ fn = NoFn
    /\ arg = <<>>
    /\ ret = <<>>

\* stream.pipe(&audio, &mut sink)
Pipe(n, hz) ==
    /\ pc = "running"
    /\ calls < MaxCalls
    /\ \E audio \in {Tape(tape, n)} : \E r \in {pipe(st, sink, audio, hz)} :
           /\ st' = r.st
           /\ sink' = r.sink
           /\ pc' = IF r.path = "abort" THEN "aborted" ELSE "running"
           /\ piped' = IF r.path = "abort" THEN piped ELSE piped \o audio
           /\ rates' = IF r.path = "abort" THEN rates ELSE rates \cup {hz}
           /\ accepted' = accepted \o Taken(sink, r.given, r.pulled)
           /\ lost' = IF r.path = "resample" THEN lost + pending ELSE lost
           /\ pending' = IF r.path = "resample"
                         THEN (IF r.ran THEN Len(audio) - r.used[1] ELSE 0)
                         ELSE pending
           /\ last' = Call("pipe", hz, audio, st, sink, r)
    /\ calls' = calls + 1
    /\ tape' = tape + n
    /\ UNCHANGED <<direct, fn, arg, ret>>

\* stream.flush(&mut sink)
Flush ==
    /\ pc = "running"
    /\ calls < MaxCalls
    /\ \E r \in {flush(st, sink)} :
           /\ st' = r.st
           /\ sink' = r.sink
           /\ accepted' = accepted \o Taken(sink, r.given, r.pulled)
           /\ lost' = IF r.path = "resample" THEN lost + pending ELSE lost
           /\ pending' = IF r.path = "resample" THEN 0 ELSE pending
           /\ last' = Call("flush", 0, <<>>, st, sink, r)
    /\ pc' = "flushed"
    /\ calls' = calls + 1
    /\ UNCHANGED <<piped, rates, direct, tape, fn, arg, ret>>

\* sink.sink_with(&mut frames.into_iter()), called by the user
SinkWith(n) ==
    /\ pc \in {"running", "flushed"}
    /\ calls < MaxCalls
    /\ \E frames \in {MapTo(Tape(tape, n), sink.S, NChan)} :
         \E k \in {Sink_sink_with(sink, frames)} :
           /\ sink' = k.sink
           /\ accepted' = accepted \o Taken(sink, frames, k.pulled)
           /\ last' = [NoCall EXCEPT !.op = "sink_with", !.st0 = st,
                          !.sink0 = sink, !.given = frames,
                          !.pulled = k.pulled]
    /\ direct' = TRUE
    /\ calls' = calls + 1
    /\ tape' = tape + n
    /\ UNCHANGED <<st, pc, piped, rates, pending, lost, fn, arg, ret>>

\* Audio::<Samp16, 3>::with_audio(hz, &audio), audio at rate src
WithAudio(hz, n, src) ==
    /\ pc = "running"
    /\ calls = 0
    /\ \E audio \in {Tape(0, n)} : \E w \in {with_audio(hz, audio, src)} :
           /\ st' = w.f.st
           /\ sink' = w.f.sink
           /\ piped' = audio
           /\ rates' = {src}
           /\ accepted' = Taken(w.sink0, w.p.given, w.p.pulled)
                          \o Taken(w.p.sink, w.f.given, w.f.pulled)
           /\ pending' = 0
           /\ lost' = IF w.p.ran THEN Len(audio) - w.p.used[1] ELSE 0
           /\ last' = Call("with_audio", src, audio, w.p.st, w.p.sink, w.f)
    /\ pc' = "flushed"
    /\ calls' = MaxCalls
    /\ direct' = FALSE
    /\ tape' = n
    /\ UNCHANGED <<fn, arg, ret>>

Next ==
    \/ \E n \in 0..MaxAudio, hz \in Hz : Pipe(n, hz)
    \/ Flush
    \/ \E n \in 0..MaxAudio : SinkWith(n)
    \/ \E hz \in Hz, n \in 0..MaxAudio, src \in Hz : WithAudio(hz, n, src)

Spec == Init /\ [][Next]_vars

\* ------------------------------------------- sample and frame functions
\* The stream and the sink stay as constructed while a sample or frame
\* function is applied to arguments drawn from the corners of its domain.
stream_vars ==
    <<st, sink, pc, calls, piped, rates, accepted, direct, pending, lost,
      last, tape>>

Near(centres, min, max) ==
    {v \in {c + k : c \in centres, k \in -MaxSpan..MaxSpan} :
        min <= v /\ v <= max}

I16Vals ==
    Near({-32768, -24576, -16384, -1, 0, 16384, 24576, 32767},
         -32768, 32767)

I24Vals ==
    Near({-8388608, -6291456, -4194304, -32768, -1, 0, 32768, 4194304,
          6291456, 8388607},
         -8388608, 8388607)

I32Vals ==
    I24Vals \cup Near({-8388608, 8388607}, -I32Max, I32Max)
            \cup {I32Max - k : k \in 0..MaxSpan}
            \cup {k - I32Max : k \in 0..MaxSpan}

Quarters == {Quarter(k) : k \in -MaxQuarter..MaxQuarter}

F32Vals ==
    Quarters \cup Near({-F32One, F32One}, -F32Inf, F32Inf)
             \cup {-F32Inf, F32Inf, F32NaN}

Samples(S) ==
    CASE S = "s16" -> {Samp16_new(v) : v \in I16Vals}
      [] S = "s24" -> {Samp24_new(v) : v \in I24Vals}
      [] S = "s32" -> {Samp32_new(x) : x \in Quarters}
      [] S = "s64" -> {Samp64_new(F64(k, -2)) : k \in -MaxQuarter..MaxQuarter}

Fn(name, S, N) == [name |-> name, S |-> S, N |-> N]

SampInit ==
    /\ st = Stream_new(1)
    /\ sink = Audio_sink(1, 0, FALSE, "s16")
    /\ pc = "running"
    /\ calls = 0
    /\ piped = <<>>
    /\ rates = {}
    /\ accepted = <<>>
    /\ direct = FALSE
    /\ pending = 0
    /\ lost = 0
    /\ last = NoCall
    /\ tape = 0
    /\ fn = NoFn
    /\ ret = <<>>
    /\ \/ \E S \in Encodings : \E x \in Samples(S), y \in Samples(S) :
            arg = [kind |-> "samples", x |-> x, y |-> y]
       \/ \E v \in I32Vals : arg = [kind |-> "i32", x |-> v, y |-> 0]
       \/ \E v \in F32Vals : arg = [kind |-> "f32", x |-> v, y |-> 0]
       \/ \E n \in 0..MaxBuffer, COUNT \in 1..MaxCount :
            arg = [kind |-> "buffer", x |-> n, y |-> COUNT]

Apply(f, r) ==
    /\ fn = NoFn
    /\ fn' = f
    /\ ret' = r
    /\ UNCHANGED <<arg, stream_vars>>

\* x.to_f32()
ToF32 == arg.kind = "samples" /\ Apply(Fn("to_f32", arg.x.enc, 0), to_f32(arg.x))

\* S::from(x) for an f32 x
FromF32(S) ==
    arg.kind = "f32" /\ Apply(Fn("from_f32", S, 0), From_f32(F32(arg.x), S))

\* Samp24::new(x)
New24 == arg.kind = "i32" /\ Apply(Fn("new", "s24", 0), Samp24_new(arg.x))

\* x + y, x - y, x * y, -x
Add ==
    arg.kind = "samples" /\ Apply(Fn("add", arg.x.enc, 0), Sample_add(arg.x, arg.y))

Sub ==
    arg.kind = "samples" /\ Apply(Fn("sub", arg.x.enc, 0), Sample_sub(arg.x, arg.y))

Mul ==
    arg.kind = "samples" /\ Apply(Fn("mul", arg.x.enc, 0), Sample_mul(arg.x, arg.y))

Neg == arg.kind = "samples" /\ Apply(Fn("neg", arg.x.enc, 0), Sample_neg(arg.x))

\* x.lerp(y, t) with t zero or MAX
Lerp ==
    /\ arg.kind = "samples"
    /\ \E t \in {Sample_MID(arg.x.enc), Sample_MAX(arg.x.enc)} :
            Apply([name |-> "lerp", S |-> arg.x.enc, N |-> 0, t |-> t],
                  Sample_lerp(arg.x, arg.y, t))

\* Audio::<S, COUNT>::with_*_buffer(hz, buffer) for a buffer of arg.x
\* elements: the assertion aborts, or the frames are built; frames that
\* reach beyond the allocation are built from foreign memory or fault.
WithBuffer(name, S, r) ==
    /\ arg.kind = "buffer"
    /\ \E fault \in (IF ~r.aborted /\ r.span > r.held THEN BOOLEAN
                      ELSE {FALSE}) :
            Apply(Fn(name, S, arg.y),
                  [aborted |-> r.aborted, len |-> r.len, held |-> r.held,
                   span |-> r.span, fault |-> fault])

WithI16Buffer ==
    WithBuffer("with_i16_buffer", "s16", with_i16_buffer(arg.x, arg.y))

WithU8Buffer ==
    WithBuffer("with_u8_buffer", "s24", with_u8_buffer(arg.x, arg.y))

WithF32Buffer ==
    WithBuffer("with_f32_buffer", "s32", with_f32_buffer(arg.x, arg.y))

WithF64Buffer ==
    WithBuffer("with_f64_buffer", "s64", with_f64_buffer(arg.x, arg.y))

\* S::from(x) for a sample x
Convert(S) == arg.kind = "samples" /\ Apply(Fn("from", S, 0), Into(arg.x, S))

\* Frame([x]).to::<S, N>() and Frame([x, y]).to::<S, N>(); the f64 mix is
\* applied to the short f64 values only
ToMono(S, N) ==
    /\ arg.kind = "samples"
    /\ Apply(Fn("to_1", S, N), Frame_to(<<arg.x>>, S, N))

ToStereo(S, N) ==
    /\ arg.kind = "samples"
    /\ (S = "s64" /\ N = 1) => arg.x.enc \in {"s32", "s64"}
    /\ Apply(Fn("to_2", S, N), Frame_to(<<arg.x, arg.y>>, S, N))

SampNext ==
    \/ ToF32
    \/ \E S \in Encodings : FromF32(S)
    \/ New24
    \/ Add
    \/ Sub
    \/ Mul
    \/ Neg
    \/ Lerp
    \/ WithI16Buffer
    \/ WithU8Buffer
    \/ WithF32Buffer
    \/ WithF64Buffer
    \/ \E S \in Encodings : Convert(S)
    \/ \E S \in Encodings, N \in 1..MaxN : ToMono(S, N)
    \/ \E S \in Encodings, N \in 1..MaxN : ToStereo(S, N)

SampSpec == SampInit /\ [][SampNext]_vars

\* ------------------------------------------------ panning and conversion
\* A sample is panned into a silent frame, or a frame is converted, the
\* arguments drawn from the speakers and the angles of the layouts.
PanEncodings == {"s16", "s24", "s32"}

\* the azimuths of Frame::to, in degrees, and the multiples of 1/16 turn
Azimuths == {-150, -110, -90, -30, 0, 30, 90, 110, 150, 180}

Angles ==
    {Turn(d) : d \in Azimuths}
    \cup {F32Round(Sign(k), Abs(k), -4, FALSE) :
             k \in -MaxSixteenth..MaxSixteenth}

\* MAX in slot k and silence elsewhere; MAX in every slot for k = 0
Lit(S, COUNT, k) ==
    [i \in 1..COUNT |->
        IF k = 0 \/ i = k THEN Sample_MAX(S) ELSE Sample_default(S)]

FrameInit ==
    /\ st = Stream_new(1)
    /\ sink = Audio_sink(1, 0, FALSE, "s16")
    /\ pc = "running"
    /\ calls = 0
    /\ piped = <<>>
    /\ rates = {}
    /\ accepted = <<>>
    /\ direct = FALSE
    /\ pending = 0
    /\ lost = 0
    /\ last = NoCall
    /\ tape = 0
    /\ fn = NoFn
    /\ ret = <<>>
    /\ \/ \E S \in PanEncodings, COUNT \in 1..Channels :
            \E k \in 0..COUNT :
                arg = [kind |-> "frame", x |-> Lit(S, COUNT, k), y |-> 0]
       \/ \E S \in PanEncodings, a \in Angles :
            \E x \in {Sample_MAX(S), Sample_MIN(S)} :
                arg = [kind |-> "pan", x |-> x, y |-> a]

\* arg.x.to::<S, N>()
To(S, N) ==
    /\ arg.kind = "frame"
    /\ Apply(Fn("to", S, N), Frame_to(arg.x, S, N))

\* Frame::<S, N>::default().pan(arg.x, arg.y)
Pan(N) ==
    /\ arg.kind = "pan"
    /\ Apply(Fn("pan", arg.x.enc, N),
             pan(Silent(arg.x.enc, N), arg.x.enc, arg.x, arg.y))

FrameNext ==
    \/ \E S \in PanEncodings, N \in 1..Channels : To(S, N)
    \/ \E N \in 1..Channels : Pan(N)

FrameSpec == FrameInit /\ [][FrameNext]_vars

TypeOK ==
    /\ pc \in {"running", "flushed", "aborted"}
    /\ calls \in 0..MaxCalls
    /\ sink.index \in 0..Len(sink.buf)

\* ------------------------------------------------------------ properties
Target == st.output_sample_rate

Remaining(k) == Len(k.buf) - k.index

\* A stereo 24-bit frame as the sink's buffer must hold it: the high 16
\* bits of left and right, and silence in a third slot if there is one.
Stored(frame, count) ==
    [i \in 1..count |->
        IF i <= 2 THEN [v |-> i32_from_Samp24(frame[i]) \div 256, lo |-> 0,
                        win |-> <<>>, ph |-> 0, enc |-> "s16"]
        ELSE Samp16_default]

\* Copying audio straight into the sink k, without a stream
DirectCopy(k, audio) ==
    [k EXCEPT
        !.buf = [i \in 1..Len(k.buf) |->
                    IF k.index < i /\ i <= k.index + Len(audio)
                    THEN Stored(audio[i - k.index], InnerCount(k.wrapped))
                    ELSE k.buf[i]],
        !.index = Min(Len(k.buf), k.index + Len(audio))]

\* C1: a pipe into a stream that has not started resampling, with audio at
\* the sink's rate, leaves the sink as a direct copy of the converted input
\* frames would, and leaves the stream untouched.
C1_FastPathCopy ==
    (/\ last.op = "pipe"
     /\ last.st0.samples[1].state.started = 0
     /\ last.sink0.hz = last.st0.output_sample_rate
     /\ last.hz = last.sink0.hz)
    => /\ sink = DirectCopy(last.sink0, last.audio)
       /\ st = last.st0

C1_Witness ==
    /\ last.op = "pipe"
    /\ last.path = "copy"
    /\ last.sink0.index >= 1
    /\ last.pulled = 2
    /\ sink.wrapped

\* C7: the AudioSink holds the k-th frame it accepted at index k, every
\* other slot is as created, the cursor stays within the buffer, and a
\* sink_with pulls as many frames as the producer has and the buffer has
\* room for, no more.
C7_SinkAppends ==
    /\ sink.index <= Len(sink.buf)
    /\ sink.index = Len(accepted)
    /\ \A k \in 1..Len(sink.buf) :
          sink.buf[k] = IF k <= sink.index THEN accepted[k]
                        ELSE Frame_default(InnerCount(sink.wrapped))
    /\ last.op /= "none" =>
          /\ last.pulled = Min(Len(last.given), Remaining(last.sink0))
          /\ sink.index = last.sink0.index + last.pulled
          /\ Len(sink.buf) = Len(last.sink0.buf)

C7_Witness ==
    /\ last.sink0.index >= 1
    /\ last.pulled >= 1
    /\ Len(last.given) > last.pulled
    /\ Len(accepted) = Len(sink.buf)

\* C8: SinkTo reports the inner sink's rate and length, and the frames the
\* inner sink took in a call are the first frames of the producer, one for
\* one and in order, each converted by Frame::to; the producer is consumed
\* no further than that.
SinkTo_sample_rate(k) == Sink_sample_rate(k)

SinkTo_len(k) == Sink_len(k)

C8_SinkToForwards ==
    (sink.wrapped /\ last.op /= "none")
    => /\ SinkTo_sample_rate(sink) = sink.hz
       /\ SinkTo_len(sink) = Len(sink.buf)
       /\ last.pulled = sink.index - last.sink0.index
       /\ last.pulled <= Len(last.given)
       /\ \A i \in 1..last.pulled :
             sink.buf[last.sink0.index + i] =
                <<Into(last.given[i][1], "s16"), Into(last.given[i][2], "s16"),
                  Samp16_default>>

C8_Witness ==
    /\ sink.wrapped
    /\ last.op = "sink_with"
    /\ last.pulled = 2
    /\ last.sink0.index >= 1

\* The one source rate piped at so far, 0 if none or several
OneRate == IF Cardinality(rates) = 1 THEN CHOOSE r \in rates : TRUE ELSE 0

\* A sink like the caller's, as it was created
FreshSink == Audio_sink(sink.hz, Len(sink.buf), sink.wrapped, sink.S)

\* All frames piped so far, piped in one call into a new stream and a
\* fresh sink
OneShot == pipe(Stream_new(Target), FreshSink, piped, OneRate)

\* C2: while all input arrives at one source rate and the sink can hold the
\* whole result, the sink holds after any number of pipe calls what one
\* pipe call with all the frames gives.
C2_ChunkingEquivalence ==
    (/\ pc = "running"
     /\ ~direct
     /\ OneRate /= 0
     /\ sink.hz = Target
     /\ CeilDiv(Len(piped) * Target, OneRate) <= Len(sink.buf))
    => /\ sink = OneShot.sink
       /\ sink.index = CeilDiv(Len(piped) * Target, OneRate)

C2_Witness ==
    /\ pc = "running"
    /\ ~direct
    /\ OneRate = 3
    /\ Target = 2
    /\ calls = 3
    /\ Len(piped) = 3
    /\ Len(last.audio) = 1
    /\ last.st0.samples[1].state.last_sample = 1
    /\ sink.index = 2
    /\ Len(sink.buf) >= 2

\* C3: no input sample is dropped between calls: what a call leaves
\* unconsumed is still in the backlog for the next call.
C3_NoInputDiscarded == lost = 0

\* C4: a process step computes no more output frames than the sink has
\* room for.
C4_OutputWithinCapacity ==
    (last.op \in {"pipe", "flush"} /\ last.ran)
    => last.out <= Remaining(last.sink0)

\* The frames written are within one frame of n * t / r
WithinOne(written, n, t, r) ==
    /\ written * r <= n * t + r
    /\ written * r >= n * t - r

Drained ==
    /\ pc = "flushed"
    /\ last.op \in {"flush", "with_audio"}
    /\ ~direct
    /\ OneRate /= 0
    /\ OneRate /= Target
    /\ sink.hz = Target

C6_RateMismatchAborts ==
    [][(/\ calls' = calls + 1
        /\ last'.op = "pipe"
        /\ sink.hz /= st.output_sample_rate)
       => (/\ pc' = "aborted"
           /\ sink' = sink
           /\ st' = st
           /\ accepted' = accepted)]_vars

C6_Witness ==
    /\ pc = "aborted"
    /\ last.op = "pipe"
    /\ Len(last.audio) = 2
    /\ Len(sink.buf) >= 1

\* The greatest common divisor, by its definition
Divides(d, a) == a % d = 0

GCD(a, b) ==
    CHOOSE d \in 1..Min(a, b) :
        /\ Divides(d, a) /\ Divides(d, b)
        /\ \A e \in 1..Min(a, b) : (Divides(e, a) /\ Divides(e, b)) => e <= d

RatioReduced ==
    /\ \A a \in Hz, b \in Hz : gcd(a, b) = GCD(a, b)
    /\ st.input_sample_rate = 0 => st.ratio = <<0, 1>>
    /\ st.input_sample_rate /= 0 =>
          /\ st.ratio = <<st.input_sample_rate \div
                             GCD(st.input_sample_rate, Target),
                          Target \div GCD(st.input_sample_rate, Target)>>
          /\ GCD(st.ratio[1], st.ratio[2]) = 1
          /\ st.ratio[1] * Target = st.ratio[2] * st.input_sample_rate

\* C9: once a source rate r is observed the ratio is r : t in lowest
\* terms, gcd computes the greatest common divisor, and a pipe at the
\* source rate already observed keeps the ratio.
C9_RatioLowestTerms ==
    /\ []RatioReduced
    /\ [][(/\ calls' = calls + 1
           /\ last'.op = "pipe"
           /\ last'.hz = st.input_sample_rate)
          => st'.ratio = st.ratio]_vars

C9_Witness ==
    /\ st.input_sample_rate = Target
    /\ Target > 1
    /\ st.ratio = <<1, 1>>
    /\ last.op = "pipe"
    /\ last.st0.input_sample_rate = last.hz

\* C10: the channels of the stream have the same phase and the same filter
\* parameters, and a process step gives the same number of output samples
\* on each of them.
C10_ChannelLockStep ==
    /\ \A c \in 1..NChan :
          /\ st.samples[c].state.samp_frac_num =
                st.samples[1].state.samp_frac_num
          /\ st.samples[c].state.filt_len = st.samples[1].state.filt_len
          /\ st.samples[c].state.int_advance =
                st.samples[1].state.int_advance
          /\ st.samples[c].state.frac_advance =
                st.samples[1].state.frac_advance
    /\ last.ran => /\ Len(last.counts) = NChan
                   /\ \A c \in 1..NChan : last.counts[c] = last.out

C10_Witness ==
    /\ last.ran
    /\ last.out >= 1
    /\ Cardinality(rates) = 2
    /\ st.samples[NChan].state.samp_frac_num > 0
    /\ st.samples[NChan].state.filt_len > BaseFiltLen

\* ------------------------------------------- properties of the samples
IntEncodings == {"s16", "s24"}

FloatEncodings == {"s32", "s64"}

Applied(name) == fn.name = name

\* C11: a 16-bit or 24-bit sample converted to f32 and back through the
\* same encoding is the sample again; MIN converts to -1.0, MAX to 1.0.
C11_FloatRoundTrip ==
    (Applied("to_f32") /\ fn.S \in IntEncodings)
    => /\ From_f32(ret, fn.S) = arg.x
       /\ arg.x = Sample_MIN(fn.S) => ret.n = -F32One
       /\ arg.x = Sample_MAX(fn.S) => ret.n = F32One

\* The integer a 16-bit or 24-bit sample stands for, and the bounds of its
\* encoding
IntVal(s) == IF s.enc = "s16" THEN s.v ELSE 256 * s.v + s.lo

IntMin(S) == IF S = "s16" THEN -32768 ELSE -8388608

IntMax(S) == IF S = "s16" THEN 32767 ELSE 8388607

\* The k for which a float sample is k / 4
QuarterOf(s) ==
    CHOOSE k \in (-4 * MaxQuarter)..(4 * MaxQuarter) :
        IF s.enc = "s32" THEN s.v = Quarter(k) ELSE s.v = F64(k, -2)

\* C12: integer samples add and subtract with saturation at MIN and MAX;
\* float samples add and subtract without clamping.
C12_SaturatingAddSub ==
    /\ (Applied("add") /\ fn.S \in IntEncodings)
       => IntVal(ret) = Clamp(IntVal(arg.x) + IntVal(arg.y),
                              IntMin(fn.S), IntMax(fn.S))
    /\ (Applied("sub") /\ fn.S \in IntEncodings)
       => IntVal(ret) = Clamp(IntVal(arg.x) - IntVal(arg.y),
                              IntMin(fn.S), IntMax(fn.S))
    /\ (Applied("add") /\ fn.S \in FloatEncodings)
       => QuarterOf(ret) = QuarterOf(arg.x) + QuarterOf(arg.y)
    /\ (Applied("sub") /\ fn.S \in FloatEncodings)
       => QuarterOf(ret) = QuarterOf(arg.x) - QuarterOf(arg.y)

\* Samp16::new(24576) + Samp16::new(16384) saturates to MAX
C12_Witness ==
    /\ Applied("add")
    /\ arg.x = Samp16_new(24576)
    /\ arg.y = Samp16_new(16384)
    /\ ret = Samp16_MAX

\* 0.75 + 0.5 is 1.25 in Samp32
C12_FloatWitness ==
    /\ Applied("add")
    /\ arg.x = Samp32_new(Quarter(3))
    /\ arg.y = Samp32_new(Quarter(2))
    /\ ret = Samp32_new(Quarter(5))

\* The product of two sample values fits the integers of the checker
Fits(a, b) == b = 0 \/ Abs(a) <= I32Max \div Abs(b)

\* C13: the product of two integer samples is the exact product divided by
\* MAX, truncated toward zero and clamped, so MAX acts as the gain 1.0.
C13_MulScaledByMax ==
    (Applied("mul") /\ fn.S \in IntEncodings)
    => LET x == IntVal(arg.x)
           y == IntVal(arg.y)
           min == IntMin(fn.S)
           max == IntMax(fn.S)
       IN  /\ IntVal(ret) \in min..max
           /\ Fits(x, y)
              => IntVal(ret) = Clamp(TruncDiv(x * y, max), min, max)
           /\ y = max => ret = arg.x
           /\ (x = max /\ y = max) => IntVal(ret) = max
           /\ (x = min /\ y = min) => IntVal(ret) = max
           /\ (x = max /\ y = min) => IntVal(ret) = min

\* Samp24::MIN * Samp24::MIN is MAX
C13_Witness ==
    /\ Applied("mul")
    /\ arg.x = Samp24_MIN
    /\ arg.y = Samp24_MIN
    /\ ret = Samp24_MAX

\* C14: negation maps MIN to MAX and MAX to MIN in every encoding; on the
\* integer encodings it is the bit complement -1 - x, which stays in range;
\* on the float encodings it is the algebraic negation, so -MID is MID.
C14_NegationSymmetry ==
    Applied("neg")
    => /\ arg.x = Sample_MIN(fn.S) => ret = Sample_MAX(fn.S)
       /\ arg.x = Sample_MAX(fn.S) => ret = Sample_MIN(fn.S)
       /\ fn.S \in IntEncodings
          => /\ IntVal(ret) = -1 - IntVal(arg.x)
             /\ IntVal(ret) \in IntMin(fn.S)..IntMax(fn.S)
       /\ fn.S \in FloatEncodings
          => /\ QuarterOf(ret) = -QuarterOf(arg.x)
             /\ arg.x = Sample_MID(fn.S) => ret = Sample_MID(fn.S)

\* -Samp24::new(0) is Samp24::new(-1)
C14_Witness ==
    /\ Applied("neg")
    /\ arg.x = Samp24_new(0)
    /\ ret = Samp24_new(-1)

\* C15: Samp24::from of a 16-bit sample s has s as its high 16 bits and,
\* as its low byte, the top byte of s with the highest bit flipped; MIN
\* goes to MIN, MAX to MAX and MID to Samp24::new(128).
C15_Promotion ==
    (Applied("from") /\ fn.S = "s24" /\ arg.x.enc = "s16")
    => LET top == (arg.x.v \div 256) % 256
       IN  /\ ret.v = arg.x.v
           /\ ret.lo = (top + 128) % 256
           /\ arg.x = Samp16_MIN => ret = Samp24_MIN
           /\ arg.x = Samp16_MAX => ret = Samp24_MAX
           /\ arg.x = Samp16_MID => ret = Samp24_new(128)

\* Samp24::from(Samp16::MID) is Samp24::new(128)
C15_Witness ==
    /\ Applied("from")
    /\ fn.S = "s24"
    /\ arg.x = Samp16_MID
    /\ ret = Samp24_new(128)
    /\ ret /= Samp24_MID

\* C16: Samp16::from of a 24-bit sample is its high 16 bits, floor(v /
\* 256); MIN, MID and MAX go to MIN, MID and MAX, and a 16-bit sample
\* promoted to 24 bits converts back to itself.
C16_Demotion ==
    /\ (Applied("from") /\ fn.S = "s16" /\ arg.x.enc = "s24")
       => /\ IntVal(ret) * 256 <= IntVal(arg.x)
          /\ IntVal(arg.x) < (IntVal(ret) + 1) * 256
          /\ arg.x = Samp24_MIN => ret = Samp16_MIN
          /\ arg.x = Samp24_MID => ret = Samp16_MID
          /\ arg.x = Samp24_MAX => ret = Samp16_MAX
    /\ (Applied("from") /\ fn.S = "s24" /\ arg.x.enc = "s16")
       => Into(ret, "s16") = arg.x

\* Samp16::from(Samp24::new(-1)) is Samp16::new(-1)
C16_Witness ==
    /\ Applied("from")
    /\ fn.S = "s16"
    /\ arg.x = Samp24_new(-1)
    /\ ret = Samp16_new(-1)

\* The promotion of Samp16::new(-1) converts back to it
C16_RoundTripWitness ==
    /\ Applied("from")
    /\ fn.S = "s24"
    /\ arg.x = Samp16_new(-1)
    /\ Into(ret, "s16") = arg.x

\* C17: i32::from(Samp24::new(v)) is v clamped to -8388608..8388607, for
\* every i32 v.
C17_PackingRoundTrip ==
    Applied("new")
    => /\ i32_from_Samp24(ret) = Clamp(arg.x, -8388608, 8388607)
       /\ ret.v \in -32768..32767
       /\ ret.lo \in 0..255

\* a negative value with a nonzero low byte, and a value out of range
C17_Witness ==
    /\ Applied("new")
    /\ arg.x = -4194305
    /\ ret.v = -16385
    /\ ret.lo = 255

C17_SaturationWitness ==
    /\ Applied("new")
    /\ arg.x = 8388608
    /\ ret = Samp24_MAX

\* C18: S::from(x) of a float x is S::from of x clamped to [-1.0, 1.0] for
\* the integer encodings S, whatever x is: x >= 1.0 gives MAX, x <= -1.0
\* gives MIN, and the result is always a value of the encoding.
C18_FromFloatClamps ==
    (Applied("from_f32") /\ fn.S \in IntEncodings)
    => LET x == arg.x
           c == IF F32IsNaN(x) THEN x
                ELSE IF x < -F32One THEN -F32One
                ELSE IF x > F32One THEN F32One
                ELSE x
       IN  /\ ret = From_f32(F32(c), fn.S)
           /\ (~F32IsNaN(x) /\ x >= F32One) => ret = Sample_MAX(fn.S)
           /\ (~F32IsNaN(x) /\ x <= -F32One) => ret = Sample_MIN(fn.S)
           /\ IntVal(ret) \in IntMin(fn.S)..IntMax(fn.S)
           /\ ret.v \in -32768..32767
           /\ ret.lo \in 0..255

\* Samp16::from(-1.25) is MIN
C18_Witness ==
    /\ Applied("from_f32")
    /\ fn.S = "s16"
    /\ arg.x = Quarter(-5)
    /\ ret = Samp16_MIN

\* C19: a mono frame converts to its sample in slot 0 and, with 2 or more
\* destination channels, in slot 1; a stereo frame with 2 or more
\* destination channels converts to left and right in slots 0 and 1; the
\* samples are converted to the destination encoding and nothing else, and
\* every other slot is silent.
C19_Passthrough ==
    /\ Applied("to_1")
       => /\ Len(ret) = fn.N
          /\ \A i \in 1..fn.N :
                ret[i] = IF i <= 2 THEN Into(arg.x, fn.S)
                         ELSE Sample_MID(fn.S)
    /\ (Applied("to_2") /\ fn.N >= 2)
       => /\ Len(ret) = fn.N
          /\ \A i \in 1..fn.N :
                ret[i] = IF i = 1 THEN Into(arg.x, fn.S)
                         ELSE IF i = 2 THEN Into(arg.y, fn.S)
                         ELSE Sample_MID(fn.S)

\* Frame([Samp16::MAX]).to::<Samp24, 3>() is [MAX, MAX, MID]
C19_Witness ==
    /\ Applied("to_1")
    /\ fn.S = "s24"
    /\ fn.N = 3
    /\ arg.x = Samp16_MAX
    /\ ret = <<Samp24_MAX, Samp24_MAX, Samp24_MID>>

\* Frame([MIN, MAX]).to::<Samp16, 3>() from 24 bits is [MIN, MAX, MID]
C19_StereoWitness ==
    /\ Applied("to_2")
    /\ fn.S = "s16"
    /\ fn.N = 3
    /\ arg.x = Samp24_MIN
    /\ arg.y = Samp24_MAX
    /\ ret = <<Samp16_MIN, Samp16_MAX, Samp16_MID>>

\* C20: a stereo frame (L, R) converts to the mono frame (L + R) / 2, in
\* every encoding: for the integer encodings twice the result is L + R,
\* give or take the odd unit; for the float encodings it is L + R.
C20_StereoToMonoIsMean ==
    (Applied("to_2") /\ fn.N = 1 /\ arg.x.enc = fn.S)
    => IF fn.S \in IntEncodings
       THEN 2 * IntVal(ret[1]) - (IntVal(arg.x) + IntVal(arg.y)) \in -1..1
       ELSE QuarterOf(Sample_add(ret[1], ret[1]))
            = QuarterOf(arg.x) + QuarterOf(arg.y)

\* ------------------------------------------------- properties of flush
\* The last n samples of a channel's input
Unconsumed(input, n) == SubSeq(input, Len(input) - n + 1, Len(input))

Zeros(n) == [i \in 1..n |-> F32(0)]

\* stream.flush(&mut sink) is the step taken, on a stream that has started
FlushStarted ==
    /\ pc = "running"
    /\ pc' = "flushed"
    /\ last'.op = "flush"
    /\ st.samples[1].state.started /= 0

\* C26: flushing a started stream puts exactly input_latency zeros per
\* channel behind the input the last step left unconsumed, then runs one
\* process step whose frames the sink takes after the earlier ones.
C26_FlushStep ==
    [][FlushStarted
       => /\ \A c \in 1..NChan :
                st'.samples[c].input =
                    Unconsumed(st.samples[c].input, pending)
                    \o Zeros(st.input_latency)
          /\ st.input_latency = st.samples[1].state.filt_len \div 2
          /\ last'.ran
          /\ accepted' = accepted \o Taken(sink, last'.given, last'.pulled)
          /\ sink'.index = sink.index + last'.pulled]_vars

\* What flush does hold: the backlog is replaced by the zeros alone
C26_FlushReplacesBacklog ==
    [][FlushStarted
       => /\ \A c \in 1..NChan :
                st'.samples[c].input = Zeros(st.input_latency)
          /\ st.input_latency = st.samples[1].state.filt_len \div 2
          /\ st.input_latency > 0
          /\ last'.ran
          /\ accepted' = accepted \o Taken(sink, last'.given, last'.pulled)
          /\ sink'.index = sink.index + last'.pulled]_vars

\* ------------------------------------------ properties of a rate switch
\* The last call was a pipe that switched the source rate
RateSwitched ==
    /\ last.op = "pipe"
    /\ last.path = "resample"
    /\ last.hz /= last.st0.input_sample_rate

Phase(s, c) == s.samples[c].state.samp_frac_num

\* The denominator of hz : t in lowest terms
NewDen(hz, t) == t \div GCD(hz, t)

\* C28: on a rate switch each channel's phase becomes
\* old_phase * new_den / old_den, old_den being at least 1, and stays below
\* new_den; at all times every channel's phase is below the denominator of
\* the ratio.
C28_PhaseRescale ==
    /\ st.ratio[2] >= 1
    /\ \A c \in 1..NSlots : Phase(st, c) \in 0..(st.ratio[2] - 1)
    /\ RateSwitched
       => \A c \in 1..NSlots :
            /\ last.st0.ratio[2] >= 1
            /\ Phase(source_hz(last.st0, last.hz), c) =
                   (Phase(last.st0, c) * NewDen(last.hz, Target))
                       \div last.st0.ratio[2]
            /\ Phase(source_hz(last.st0, last.hz), c)
                   < NewDen(last.hz, Target)

\* A switch from one rate to another with a phase that is not zero before
\* and after the rescale
C28_Witness ==
    /\ RateSwitched
    /\ last.st0.input_sample_rate /= 0
    /\ Phase(last.st0, 1) > 0
    /\ Phase(source_hz(last.st0, last.hz), 1) > 0
    /\ Phase(source_hz(last.st0, last.hz), 1) /= Phase(last.st0, 1)

\* The first rate observed: the old denominator is the 1 of Stream::new
C28_FirstRateWitness ==
    /\ RateSwitched
    /\ last.st0.input_sample_rate = 0
    /\ last.st0.ratio = <<0, 1>>
    /\ st.ratio[2] > 1

\* ------------------------------------------- properties of raw buffers
BufferBuilt == fn.name \in {"with_i16_buffer", "with_u8_buffer",
                            "with_f32_buffer", "with_f64_buffer"}

\* The frames a buffer of ret.held bytes holds
FrameSize == size_of_Frame(fn.S, fn.N)

\* C25: a raw buffer whose byte length is not a multiple of the frame size
\* (COUNT times 2, 3, 4 or 8 bytes) aborts the construction; otherwise
\* exactly byte length / frame size frames are built, all inside the buffer.
C25_RawBufferLength ==
    BufferBuilt
    => /\ ret.aborted <=> ret.held % FrameSize /= 0
       /\ ~ret.aborted
          => /\ ret.len = ret.held \div FrameSize
             /\ ret.len * FrameSize <= ret.held
             /\ ~ret.fault

\* The i16, f32 and f64 constructors do so
C25_TypedBufferLength ==
    (BufferBuilt /\ fn.name /= "with_u8_buffer")
    => /\ ret.aborted <=> ret.held % FrameSize /= 0
       /\ ~ret.aborted
          => /\ ret.len = ret.held \div FrameSize
             /\ ret.len * FrameSize <= ret.held
             /\ ~ret.fault

\* ------------------------------- properties of flush before any resampling
\* stream.flush(&mut sink) is the step taken, on a stream not yet started
FlushUnstarted ==
    /\ pc = "running"
    /\ pc' = "flushed"
    /\ last'.op = "flush"
    /\ st.samples[1].state.started = 0

\* Audio::with_audio was called with the source rate equal to the target
EqualRates == last.op = "with_audio" /\ last.hz = Target

\* C29: flushing a stream that has not started resampling gives the sink
\* no frame and leaves its buffer and cursor as they were; hence with_audio
\* at equal rates returns the input converted frame by frame, nothing more.
C29_FlushUnstartedWritesNothing ==
    /\ [][FlushUnstarted
          => /\ sink' = sink
             /\ accepted' = accepted
             /\ last'.pulled = 0]_vars
    /\ [](EqualRates
          => /\ last.st0.samples[1].state.started = 0
             /\ sink = last.sink0
             /\ Len(sink.buf) = Len(piped)
             /\ sink.index = Len(piped)
             /\ \A i \in 1..Len(piped) :
                    sink.buf[i] = Frame_to(piped[i], "s16", 3))

\* with_audio at equal rates for an input of two frames or more
C29_Witness ==
    /\ EqualRates
    /\ Len(piped) >= 2
    /\ sink.index = Len(piped)

\* A flush after fast-path copies only, the sink holding frames
C29_CopyWitness ==
    /\ last.op = "flush"
    /\ last.st0.samples[1].state.started = 0
    /\ last.st0.input_sample_rate = 0
    /\ Len(piped) >= 1
    /\ sink.index >= 1
    /\ sink = last.sink0

\* ----------------------------------- properties of panning and conversion
\* The encoding and the channel count of the frame given to Frame::to
SourceS == arg.x[1].enc

SourceN == Len(arg.x)

\* min(destinationN / sourceN, 1.0)
ByChannels == amplitude(fn.N, SourceN)

\* C21: a source of 3 to 8 channels is mixed into 1 to 8 channels with
\* every source sample scaled by min(destinationN / sourceN, 1.0): the
\* result of to_4 .. to_8 is the mix at that factor, and the left channel
\* of a 3-channel source arrives scaled by it.
C21_AmplitudeFactor ==
    /\ (Applied("to") /\ SourceN >= 4)
       => ret = mix(arg.x, fn.S, fn.N, ByChannels)
    /\ (Applied("to") /\ SourceN = 3 /\ fn.S = SourceS
                      /\ arg.x = Lit(SourceS, 3, 1))
       => ret[1] = Scaled(arg.x[1], ByChannels)

\* For the sources of 4 and 5 channels, which have no LFE, the factor is
\* the one claimed
C21_AmplitudeWithoutLfe ==
    (Applied("to") /\ SourceN \in {4, 5})
    => ret = mix(arg.x, fn.S, fn.N, ByChannels)

\* The amplitude to_6, to_7 and to_8 compute: the LFE is not counted
PannedOnly == amplitude(fn.N, SourceN - 1)

\* The pans of every channel but the LFE, and the scaled LFE
Panned == pan_each(Silent(fn.S, fn.N), fn.S, arg.x, Speakers(SourceN),
                   PannedOnly)

ScaledLfe == Scaled(arg.x[4], PannedOnly)

\* C22: from a source of 6 to 8 channels the scaled LFE is panned at 0.5
\* into a destination of 1 to 5 channels, which has no LFE slot, and is
\* stored in slot 3 of a destination of 6 to 8 channels.
C22_LfePannedBack ==
    (Applied("to") /\ SourceN >= 6)
    => /\ fn.N <= 5 => ret = pan(Panned, fn.S, ScaledLfe, F32Half)
       /\ fn.N >= 6 => ret = [Panned EXCEPT ![4] = Into(ScaledLfe, fn.S)]

\* It is so for every destination but the one of 5 channels
C22_LfeButFive ==
    (Applied("to") /\ SourceN >= 6 /\ fn.N /= 5)
    => /\ fn.N <= 5 => ret = pan(Panned, fn.S, ScaledLfe, F32Half)
       /\ fn.N >= 6 => ret = [Panned EXCEPT ![4] = Into(ScaledLfe, fn.S)]

\* C23: a frame converted to its own channel count and encoding comes back
\* slot by slot.
C23_SameLayoutCopies ==
    (Applied("to") /\ fn.N = SourceN /\ fn.S = SourceS) => ret = arg.x

\* It does for 1, 2 and 3 channels, which are copied without a pan
C23_CopiesUpToThree ==
    (Applied("to") /\ fn.N = SourceN /\ fn.S = SourceS /\ SourceN <= 3)
    => ret = arg.x

\* The weights of a pan: what a unit sample of Samp32 leaves in the slots
UnitPan == Applied("pan") /\ arg.x = Samp32_MAX

Weight(i) == ret[i].v

RECURSIVE SumSquares(_)
SumSquares(i) ==
    IF i = 0 THEN 0
    ELSE F32Add(SumSquares(i - 1), F32Mul(Weight(i), Weight(i)))

\* 1.0 within 2^-22, i.e. two units of the last place above and four below
NearOne(x) == F32One - 4 <= x /\ x <= F32One + 2

Fed == {i \in 1..fn.N : Weight(i) /= 0}

\* C24: in every layout and at every angle the squares of the weights of a
\* pan sum to 1.0 within the tolerance, and at most two speakers are fed.
C24_ConstantPower ==
    UnitPan
    => /\ NearOne(SumSquares(fn.N))
       /\ Cardinality(Fed) <= 2
       /\ Cardinality(Fed) >= 1

\* Half way between the two back speakers of 5 channels: both are fed
C24_Witness ==
    /\ UnitPan
    /\ fn.N = 5
    /\ arg.y = F32Half
    /\ Fed = {4, 5}
    /\ Weight(4) = Weight(5)

\* The slot of the LFE, which has no azimuth, and the azimuth of every
\* other slot in degrees, after the layout table
LfeSlots(N) == IF N >= 6 THEN {4} ELSE {}

Layout(N) ==
    CASE N = 2 -> <<-90, 90>>
      [] N = 3 -> <<-90, 90, 0>>
      [] N = 4 -> <<-30, 30, -110, 110>>
      [] N = 5 -> <<-30, 30, 0, -110, 110>>
      [] N = 6 -> <<-30, 30, 0, 0, -110, 110>>
      [] N = 7 -> <<-30, 30, 0, 0, 180, -90, 90>>
      [] N = 8 -> <<-30, 30, 0, 0, -150, 150, -90, 90>>

\* The value of a sample, for the test of its sign
Value(s) == IF s.enc = "s24" THEN 256 * s.v + s.lo ELSE s.v

\* C27: a sample panned at the azimuth of a speaker of the layout arrives
\* in the slot of that speaker with weight +1 and in no other slot; no
\* weight is negative (a positive sample leaves no negative slot).
C27_PanAtSpeaker ==
    (Applied("pan") /\ fn.N >= 2)
    => /\ \A k \in (1..fn.N) \ LfeSlots(fn.N) :
            arg.y = Turn(Layout(fn.N)[k])
            => ret = [i \in 1..fn.N |->
                        IF i = k THEN arg.x ELSE Sample_default(fn.S)]
       /\ arg.x = Sample_MAX(fn.S)
          => \A i \in 1..fn.N : Value(ret[i]) >= 0

\* In the layouts of 7 and 8 channels the side speakers at 0.25 and 0.75,
\* the front speaker at 0.0 and the back speaker of 7 channels at 0.5 do
\* get the whole sample alone
C27_ExactSpeakers ==
    (Applied("pan") /\ fn.N >= 7)
    => \A k \in (1..fn.N) \ LfeSlots(fn.N) :
            (arg.y = Turn(Layout(fn.N)[k])
             /\ Layout(fn.N)[k] \in {-90, 0, 90, 180})
            => ret = [i \in 1..fn.N |->
                        IF i = k THEN arg.x ELSE Sample_default(fn.S)]

\* C30: a.lerp(b, t) returns a when t is zero and b when t is MAX, in every
\* encoding, the integer ones with a and b at opposite ends included.
C30_LerpEndpoints ==
    Applied("lerp")
    => /\ fn.t = Sample_MID(fn.S) => ret = arg.x
       /\ fn.t = Sample_MAX(fn.S) => ret = arg.y

\* On the float encodings, and on the integer ones while rhs - self stays
\* in range, both ends are returned
C30_LerpEndpointsInRange ==
    (/\ Applied("lerp")
     /\ fn.S \in IntEncodings
        => IntVal(arg.y) - IntVal(arg.x) \in IntMin(fn.S)..IntMax(fn.S))
    => /\ fn.t = Sample_MID(fn.S) => ret = arg.x
       /\ fn.t = Sample_MAX(fn.S) => ret = arg.y
====
